---------------------------- MODULE Spec2Model ----------------------------
(***************************************************************************)
(* A model of kuehlmak (src/src/eval.rs, src/src/main.rs): the layout text  *)
(* format, the layout database written by the annealing workers, the        *)
(* bigram/trigram classifier tables and the constraint evaluator.           *)
(*                                                                          *)
(* A char is its Unicode code point.  A Layout is a function from the key   *)
(* index 0..29 to a pair <<primary, secondary>>.  A String is a sequence of *)
(* chars.                                                                   *)
(***************************************************************************)
EXTENDS Integers, Sequences, FiniteSets, TLC

VARIABLES
    \* --- layout text format (SpecLayout) ---
    lpc,          \* position of the layout-format run
    in_layout,    \* the Layout handed to layout_to_str / layout_to_filename
    in_text,      \* the text handed to layout_from_str
    out_str,      \* result of layout_to_str
    out_parsed,   \* result of layout_from_str
    out_filename, \* result of layout_to_filename
    out_file,     \* content of the layout's file in the database directory
    calls,        \* number of write_to_db calls made for the layout
    out_read,     \* what layouts_from_paths got from layout_from_file
    \* --- layout database (SpecDb) ---
    max_count,    \* number of pool threads (--jobs)
    dir_files,    \* the DB directory: the files created, file name and content
    tpc,          \* per task: position inside the worker closure / write_to_db
    tlayout,      \* per task: index of the layout its annealing run found
    textra,       \* per task: number of lines write_extra produces
    tpending,     \* per task: pieces of the create path not yet given to the BufWriter
    tbuf,         \* per task: content of the BufWriter's buffer
    tpath,        \* per task: branch of write_to_db taken
    tresult,      \* per task: what write_to_db returned
    \* --- classifier tables (SpecClassify) ---
    board_type,   \* params.board_type
    space_thumb,  \* params.space_thumb
    ki, kj, kk,   \* key indices looked up
    bigram_ij,    \* bigram_types[ki][kj]
    bigram_ik,    \* bigram_types[ki][kk]
    bigram_jk,    \* bigram_types[kj][kk]
    d_abs_i,      \* key_props[ki].d_abs: its square, in sixteenths
    trigram_ijk,  \* trigram_types[ki][kj][kk]
    \* --- constraint evaluator (SpecConstraints) ---
    cpc,          \* position of the constraint run
    c_params,     \* ConstraintParams of the model
    c_layout,     \* the layout evaluated
    c_forced,     \* value returned by eval_forced_coded
    c_score,      \* value returned by eval_constraints
    c_returned,   \* value returned by Scores::layout()
    c_rescore,    \* constraints of the final evaluation, of the returned layout
    c_homing,     \* value of eval_homing in eval_constraints
    \* --- annealing steps (SpecNeighbor) ---
    n_board,      \* params.board_type of the model
    n_layout,     \* the layout the annealing is at
    n_steps,      \* number of neighbor steps taken
    n_draw,       \* what the last call of neighbor drew from the RNG
    \* --- dispatcher of anneal_command (SpecDispatch) ---
    d_n,            \* -n: number of annealing tasks
    d_max,          \* pool.max_count()
    d_progress,     \* --progress
    d_pc,           \* position of the main thread
    d_submitted,    \* tasks handed to pool.execute so far
    d_jobs,         \* the pool's job queue
    d_queued_count, \* the pool's queued_count
    d_tx,           \* the main thread still holds its Sender
    d_chan,         \* messages sent and not yet received
    d_stdout,       \* messages written to stdout
    w_pc,           \* per task: position of its closure
    w_prog,         \* per task: progress messages sent
    \* eval_layout and calc_ngrams
    e_pc,           \* position in eval_layout
    e_model,        \* the model's board_type and space_thumb
    e_layout,       \* layout
    e_text,         \* the text the corpus statistics ts were made from
    e_precision,    \* precision, in tenths
    e_keymap,       \* token_keymap: the key of each symbol of the corpus
    e_heatmap,      \* scores.heatmap
    e_strokes,      \* scores.strokes
    e_hand_total,   \* hand_total
    e_same_hand,    \* same_hand
    e_total,        \* total: the count of the n-grams the loop has visited
    e_bigram_counts,  \* scores.bigram_counts
    e_trigram_counts, \* scores.trigram_counts
    e_loop,         \* the locals of the n-gram loop as it ended: total, counts,
                    \* the n-grams visited, the count that corrected finger_travel
    e_travel_scale, \* 1.0 - precision: what the blend multiplies finger_travel - orig by
    e_report        \* the key and the heat that Scores::write prints at each place of the grid

layoutVars   == <<lpc, in_layout, in_text, out_str, out_parsed, out_filename,
                   out_file, calls, out_read>>
dbVars       == <<max_count, dir_files, tpc, tlayout, textra, tpending, tbuf, tpath, tresult>>
classifyVars == <<board_type, space_thumb, ki, kj, kk, bigram_ij, bigram_ik, bigram_jk, d_abs_i,
                 trigram_ijk>>
constrVars   == <<cpc, c_params, c_layout, c_forced, c_score, c_returned, c_rescore,
                 c_homing>>
neighborVars == <<n_board, n_layout, n_steps, n_draw>>
dispatchVars == <<d_n, d_max, d_progress, d_pc, d_submitted, d_jobs, d_queued_count,
                  d_tx, d_chan, d_stdout, w_pc, w_prog>>
evalVars == <<e_report, e_pc, e_model, e_layout, e_text, e_precision, e_keymap, e_heatmap,
              e_strokes, e_hand_total, e_same_hand, e_total, e_bigram_counts,
              e_trigram_counts, e_loop, e_travel_scale>>
vars == <<layoutVars, dbVars, classifyVars, constrVars, neighborVars, dispatchVars,
          evalVars>>

-----------------------------------------------------------------------------
(* Generic helpers *)

Min(a, b) == IF a < b THEN a ELSE b
Max(a, b) == IF a > b THEN a ELSE b

RECURSIVE Flatten(_)
Flatten(ss) == IF ss = << >> THEN << >> ELSE Head(ss) \o Flatten(Tail(ss))

-----------------------------------------------------------------------------
(* Layout geometry: 3 rows of 10 keys, 2 chars per key (eval.rs:15-16) *)

NumRows    == 3
KeysPerRow == 10
NumKeys    == NumRows * KeysPerRow
CharsPerKey == 2
KeyIdx     == 0 .. (NumKeys - 1)

-----------------------------------------------------------------------------
(* Unicode facts used by the code through char::is_whitespace,              *)
(* char::is_alphabetic, char::is_alphanumeric, char::to_lowercase and       *)
(* char::to_uppercase, for ASCII and a few cased letters outside ASCII:     *)
(*   U+00DF ß  (upper "SS"),      U+1E9E ẞ (lower ß),                       *)
(*   U+0130 İ  (lower "i̇", i.e. i + U+0307),   U+212A K KELVIN (lower k).   *)

LF == 10
CR == 13
SPACE == 32
NUL == 0
SharpS == 223
CapSharpS == 7838
DottedI == 304
CombDot == 775
Kelvin == 8490

IsWhitespace(c) ==
    \/ c \in 9 .. 13
    \/ c \in {32, 133, 160, 5760, 8232, 8233, 8239, 8287, 12288}
    \/ c \in 8192 .. 8202

IsAsciiLower(c) == c \in 97 .. 122
IsAsciiUpper(c) == c \in 65 .. 90
IsAsciiDigit(c) == c \in 48 .. 57

IsAlphabetic(c) ==
    IsAsciiLower(c) \/ IsAsciiUpper(c) \/ c \in {SharpS, CapSharpS, DottedI, Kelvin}

IsAlphanumeric(c) == IsAlphabetic(c) \/ IsAsciiDigit(c)

\* char::to_lowercase: the sequence of chars the iterator yields
ToLowercase(c) ==
    IF IsAsciiUpper(c) THEN <<c + 32>>
    ELSE IF c = CapSharpS THEN <<SharpS>>
    ELSE IF c = DottedI THEN <<105, CombDot>>
    ELSE IF c = Kelvin THEN <<107>>
    ELSE <<c>>

\* char::to_uppercase: the sequence of chars the iterator yields
ToUppercase(c) ==
    IF IsAsciiLower(c) THEN <<c - 32>>
    ELSE IF c = SharpS THEN <<83, 83>>
    ELSE <<c>>

-----------------------------------------------------------------------------
(* str::lines and str::split_whitespace *)

\* the n-th smallest element of a finite set of integers, n in 1 .. Cardinality(S)
NthOf(S, n) == CHOOSE p \in S : Cardinality({q \in S : q < p}) = n - 1

StripCR(line) ==
    IF Len(line) > 0 /\ line[Len(line)] = CR
    THEN SubSeq(line, 1, Len(line) - 1) ELSE line

\* str::lines: the segments between the LF chars; a final empty segment is no
\* line; a CR that ends a line is cut
Lines(s) ==
    LET seps  == {i \in 1 .. Len(s) : s[i] = LF}
        nseg  == Cardinality(seps) + 1
        from(n) == IF n = 1 THEN 1 ELSE NthOf(seps, n - 1) + 1
        to(n)   == IF n = nseg THEN Len(s) ELSE NthOf(seps, n) - 1
        nlines == IF from(nseg) > Len(s) THEN nseg - 1 ELSE nseg
    IN  [n \in 1 .. nlines |-> StripCR(SubSeq(s, from(n), to(n)))]

\* str::split_whitespace: the maximal non-empty runs of non-whitespace chars
SplitWhitespace(s) ==
    LET IsWS(i) == i < 1 \/ i > Len(s) \/ IsWhitespace(s[i])
        starts == {i \in 1 .. Len(s) : ~IsWS(i) /\ IsWS(i - 1)}
        ends   == {i \in 1 .. Len(s) : ~IsWS(i) /\ IsWS(i + 1)}
    IN  [n \in 1 .. Cardinality(starts) |-> SubSeq(s, NthOf(starts, n), NthOf(ends, n))]

-----
(* layout_from_str (eval.rs:18-84) *)

Ok(lay)  == [ok |-> TRUE,  layout |-> lay, err |-> "none"]
Err(why) == [ok |-> FALSE, layout |-> << >>, err |-> why]

\* let mut layout: Layout = [[' '; 2]; 30];
BlankLayout == [k \in KeyIdx |-> <<SPACE, SPACE>>]

\* the body of the loop over the keys of a row, for key number k of the layout:
\* the chars of the key are stored, a third char is an error, a single char is
\* expanded to its lower and upper case forms
ParseKey(lay, k, key) ==
    IF Len(key) > CharsPerKey THEN Err("too many characters")
    ELSE
        LET last_char == Len(key) - 1
            stored == [lay EXCEPT ![k] =
                          [i \in 1 .. CharsPerKey |-> IF i <= Len(key) THEN key[i] ELSE @[i]]]
            c == stored[k][1]
        IN  IF last_char = 0
            THEN IF \/ ~IsAlphabetic(c)
                    \/ Len(ToLowercase(c)) # 1
                    \/ Len(ToUppercase(c)) # 1
                 THEN Err("case conversion failed")
                 ELSE Ok([stored EXCEPT ![k] = <<ToLowercase(c)[1], ToUppercase(c)[1]>>])
            ELSE IF last_char = 1 THEN Ok(stored)
            ELSE Err("panic")       \* assert!(last_char == 1)

\* the loop over the keys of row l; k counts the keys already taken
RECURSIVE ParseKeys(_, _, _, _)
ParseKeys(lay, l, keys, k) ==
    IF k >= Len(keys)
    THEN LET last_key == IF Len(keys) = 0 THEN 0 ELSE Len(keys) - 1
         IN  IF last_key + 1 < KeysPerRow THEN Err("too few keys") ELSE Ok(lay)
    ELSE IF k >= KeysPerRow THEN Err("too many keys")
    ELSE LET r == ParseKey(lay, l * KeysPerRow + k, keys[k + 1])
         IN  IF r.ok THEN ParseKeys(r.layout, l, keys, k + 1) ELSE r

\* the loop over the first three lines
RECURSIVE ParseLines(_, _, _)
ParseLines(lay, lines, l) ==
    IF l >= Min(NumRows, Len(lines))
    THEN LET last_line == IF Len(lines) = 0 THEN 0 ELSE Min(NumRows, Len(lines)) - 1
         IN  IF last_line + 1 < NumRows THEN Err("too few rows") ELSE Ok(lay)
    ELSE LET r == ParseKeys(lay, l, SplitWhitespace(lines[l + 1]), 0)
         IN  IF r.ok THEN ParseLines(r.layout, lines, l + 1) ELSE r

\* symbols.sort_unstable(): the chars in ascending order
SortChars(s) ==
    LET rank == [i \in 1 .. Len(s) |->
                    Cardinality({j \in 1 .. Len(s) : s[j] < s[i]})
                    + Cardinality({j \in 1 .. i - 1 : s[j] = s[i]}) + 1]
    IN  [n \in 1 .. Len(s) |-> s[CHOOSE i \in 1 .. Len(s) : rank[i] = n]]

\* (faulty variant) no symbol is ever reported as a duplicate
FoldDups_none(sorted) == << >>

\* the fold over the sorted symbols: a char equal to its predecessor is pushed
\* to dups; the predecessor of the first char is '\0'
FoldDups(sorted) ==
    LET prev(n) == IF n = 1 THEN NUL ELSE sorted[n - 1]
        hits == {n \in 1 .. Len(sorted) : prev(n) = sorted[n]}
    IN  [n \in 1 .. Cardinality(hits) |-> sorted[NthOf(hits, n)]]

LayoutSymbols(lay) == Flatten([n \in 1 .. NumKeys |-> lay[n - 1]])

layout_from_str(text) ==
    LET r == ParseLines(BlankLayout, Lines(text), 0)
    IN  IF ~r.ok THEN r
        ELSE IF Len(FoldDups(SortChars(LayoutSymbols(r.layout)))) > 0
             THEN Err("duplicated symbols")
             ELSE r

-----------------------------------------------------------------------------
(* layout_to_str (eval.rs:86-102) *)

\* one key: "  a" when the lower case of the secondary is the primary, " ab" otherwise
WriteKey(key) ==
    IF ToLowercase(key[2])[1] = key[1]
    THEN <<SPACE, SPACE, key[1]>>
    ELSE <<SPACE, key[1], key[2]>>

\* write10keys followed by writeln
WriteRow(lay, row) ==
    Flatten([n \in 1 .. KeysPerRow |-> WriteKey(lay[row * KeysPerRow + n - 1])]) \o <<LF>>

layout_to_str(lay) == Flatten([r \in 1 .. NumRows |-> WriteRow(lay, r - 1)])

-----------------------------------------------------------------------------
(* layout_to_filename (eval.rs:104-130) *)

Underscore == 95

\* the substitutions for characters that don't work well in file names
FilenameSubst ==
    (47 :> 90) @@ (63 :> 83) @@ (60 :> 76) @@ (62 :> 71) @@ (58 :> 73) @@ (59 :> 74) @@
    (92 :> 88) @@ (124 :> 84) @@ (46 :> 79) @@ (44 :> 81) @@ (39 :> 86) @@ (34 :> 87)

FilenameChar(a) == IF a \in DOMAIN FilenameSubst THEN FilenameSubst[a] ELSE a

KblSuffix == <<46, 107, 98, 108>>     \* ".kbl"

layout_to_filename(lay) ==
    Flatten([n \in 1 .. NumKeys |->
                (IF n - 1 = 10 \/ n - 1 = 20 THEN <<Underscore>> ELSE << >>)
                \o <<FilenameChar(lay[n - 1][1])>>])
    \o KblSuffix

-----------------------------------------------------------------------------
(* Inputs of the layout text format *)

\* static QWERTY (main.rs:25-28), as its lines of whitespace-separated keys
QwertyRows ==
    << << <<113>>, <<119>>, <<101>>, <<114>>, <<116>>,
          <<121>>, <<117>>, <<105>>, <<111>>, <<112>> >>,
       << <<97>>, <<115>>, <<100>>, <<102>>, <<103>>,
          <<104>>, <<106>>, <<107>>, <<108>>, <<59, 58>> >>,
       << <<122>>, <<120>>, <<99>>, <<118>>, <<98>>,
          <<110>>, <<109>>, <<44, 60>>, <<46, 62>>, <<47, 63>> >> >>

\* a text from its lines of keys: keys separated by a space, lines by LF
RECURSIVE JoinWith(_, _)
JoinWith(ss, sep) ==
    IF ss = << >> THEN << >>
    ELSE IF Len(ss) = 1 THEN ss[1]
    ELSE ss[1] \o <<sep>> \o JoinWith(Tail(ss), sep)

RenderText(rows) == JoinWith([l \in 1 .. Len(rows) |-> JoinWith(rows[l], SPACE)], LF)

\* layout_from_str(QWERTY).unwrap() (main.rs:159)
QwertyLayout == layout_from_str(RenderText(QwertyRows)).layout

\* a valid layout: 30 keys, the 60 glyphs pairwise distinct, no whitespace glyph
IsValidLayout(lay) ==
    /\ DOMAIN lay = KeyIdx
    /\ \A k \in KeyIdx : \A i \in 1 .. CharsPerKey : ~IsWhitespace(lay[k][i])
    /\ \A k1, k2 \in KeyIdx : \A i1, i2 \in 1 .. CharsPerKey :
           lay[k1][i1] = lay[k2][i2] => (k1 = k2 /\ i1 = i2)

\* keys put in place of a QWERTY key: k KELVIN, i İ, ß ẞ, - _, * +, ' ", 1 !, \ |, [ {,
\* V v
AltKeys ==
    { <<107, Kelvin>>, <<105, DottedI>>, <<SharpS, CapSharpS>>, <<45, 95>>, <<42, 43>>,
      <<39, 34>>, <<49, 33>>, <<92, 124>>, <<91, 123>>, <<86, 118>> }

InputLayouts ==
    {QwertyLayout} \cup
    { lay \in { [QwertyLayout EXCEPT ![p] = key] : p \in KeyIdx, key \in AltKeys } :
        IsValidLayout(lay) }

\* keys put in place of a key of a text: a letter, an upper case letter, a
\* duplicate of 'q', a non-alphabetic single char, ß, İ, three chars, two chars,
\* two chars that duplicate 'a'
TextKeys ==
    { <<97>>, <<66>>, <<113>>, <<59>>, <<SharpS>>, <<DottedI>>, <<97, 98, 99>>,
      <<49, 33>>, <<45, 97>> }

\* lines that may follow the three rows: a comment, an empty line, a score line
ExtraLine(n) ==
    IF n % 3 = 1 THEN <<35, 35>>
    ELSE IF n % 3 = 2 THEN << >>
    ELSE <<83, 99, 111, 114, 101, SPACE, 49>>

MaxTextLines == 4

RowsText(rows, nlines) ==
    JoinWith([l \in 1 .. nlines |->
                 IF l <= Len(rows) THEN JoinWith(rows[l], SPACE) ELSE ExtraLine(l)], LF)

ReplaceKey(rows, l, k, key) == [rows EXCEPT ![l][k] = key]
DropKey(rows, l) == [rows EXCEPT ![l] = SubSeq(@, 1, Len(@) - 1)]
AddKey(rows, l, key) == [rows EXCEPT ![l] = Append(@, key)]

InputRows ==
    {QwertyRows}
    \cup { ReplaceKey(QwertyRows, l, k, key) :
             l \in 1 .. NumRows, k \in 1 .. KeysPerRow, key \in TextKeys }
    \cup { DropKey(QwertyRows, l) : l \in 1 .. NumRows }
    \cup { AddKey(QwertyRows, l, <<49, 33>>) : l \in 1 .. NumRows }
    \cup { [QwertyRows EXCEPT ![l] = << >>] : l \in 1 .. NumRows }

\* the last two: QWERTY followed by the line "# #", and by "##" and an empty line
InputTexts ==
    { RowsText(rows, n) : rows \in InputRows, n \in 0 .. MaxTextLines }
    \cup { RowsText(QwertyRows, NumRows) \o <<LF>>, <<LF>> \o RowsText(QwertyRows, NumRows) }
    \cup { RowsText(QwertyRows, NumRows) \o <<LF, 35, SPACE, 35>>,
           RowsText(QwertyRows, NumRows) \o <<LF, 35, 35, LF, LF>> }

-----------------------------------------------------------------------------
(* layout_from_file (main.rs:30-49) and the files write_to_db makes          *)

Hash == 35

\* the popularity of a file: the number of '#' of its last line if the line
\* has no other char and at least one '#', else 0
Popularity(string) ==
    LET OfLine(last_line) ==
            LET hashes == Cardinality({i \in 1 .. Len(last_line) : last_line[i] = Hash})
                others == Cardinality({i \in 1 .. Len(last_line) : last_line[i] # Hash})
            IN  IF others = 0 /\ hashes > 0 THEN hashes ELSE 0
    IN  CHOOSE popularity \in
            { IF Len(lines) = 0 THEN 0 ELSE OfLine(lines[Len(lines)]) :
                  lines \in {Lines(string)} } : TRUE

\* the process exits with status 1 when the text does not parse
layout_from_file(string) ==
    LET r == layout_from_str(string)
    IN  [exit |-> ~r.ok, layout |-> r.layout, popularity |-> Popularity(string)]

\* what write and write_extra put between the layout and the first '#': lines
\* that each end in LF; "Score 1", and "Score 1" followed by the n-gram line " ##:1"
ReportTexts ==
    { <<83, 99, 111, 114, 101, SPACE, 49, LF>>,
      <<83, 99, 111, 114, 101, SPACE, 49, LF, SPACE, Hash, Hash, 58, 49, LF>> }

MaxCalls == 3          \* write_to_db calls made for one layout

-----------------------------------------------------------------------------
(* The runs of the other parts, at rest *)

IdleLayout ==
    /\ lpc = "idle" /\ in_layout = << >> /\ in_text = << >>
    /\ out_str = << >> /\ out_parsed = Err("none") /\ out_filename = << >>
    /\ out_file = << >> /\ calls = 0 /\ out_read = << >>

IdleDb ==
    /\ max_count = 0 /\ dir_files = << >> /\ tpc = << >> /\ tlayout = << >>
    /\ textra = << >> /\ tpending = << >> /\ tbuf = << >> /\ tpath = << >>
    /\ tresult = << >>

\* no table entry has been read
NotRead == 0 - 2

IdleClassify ==
    /\ board_type = "none" /\ space_thumb = "none" /\ ki = 0 /\ kj = 0 /\ kk = 0
    /\ bigram_ij = NotRead /\ bigram_ik = NotRead /\ bigram_jk = NotRead
    /\ d_abs_i = NotRead
    /\ trigram_ijk = NotRead

IdleDispatch ==
    /\ d_n = 0 /\ d_max = 0 /\ d_progress = FALSE /\ d_pc = "idle" /\ d_submitted = 0
    /\ d_jobs = << >> /\ d_queued_count = 0 /\ d_tx = FALSE
    /\ d_chan = << >> /\ d_stdout = << >> /\ w_pc = << >> /\ w_prog = << >>

IdleEval ==
    /\ e_pc = "idle" /\ e_model = << >> /\ e_layout = << >> /\ e_text = << >>
    /\ e_precision = 0 /\ e_keymap = << >> /\ e_heatmap = << >> /\ e_strokes = 0
    /\ e_hand_total = << >> /\ e_same_hand = << >> /\ e_total = 0
    /\ e_bigram_counts = << >> /\ e_trigram_counts = << >>
    /\ e_loop = << >> /\ e_travel_scale = << >> /\ e_report = << >>

IdleNeighbor ==
    /\ n_board = "none" /\ n_layout = << >> /\ n_steps = 0 /\ n_draw = << >>

IdleConstraints ==
    /\ cpc = "idle" /\ c_params = << >> /\ c_layout = << >>
    /\ c_forced = << >> /\ c_score = << >>
    /\ c_returned = << >> /\ c_rescore = << >> /\ c_homing = << >>

-----------------------------------------------------------------------------
(* SpecLayout: layout_to_str, layout_from_str and layout_to_filename applied *)
(* to the inputs                                                            *)

InitLayout ==
    /\ \/ /\ lpc = "layout" /\ in_layout \in InputLayouts /\ in_text = << >>
       \/ /\ lpc = "text" /\ in_layout = << >> /\ in_text \in InputTexts
    /\ out_str = << >> /\ out_parsed = Err("none") /\ out_filename = << >>
    /\ out_file = << >> /\ calls = 0 /\ out_read = << >>
    /\ IdleDb /\ IdleClassify /\ IdleConstraints /\ IdleNeighbor /\ IdleDispatch /\ IdleEval

ToStr ==
    /\ lpc = "layout"
    /\ out_str' = layout_to_str(in_layout)
    /\ lpc' = "written"
    /\ UNCHANGED <<in_layout, in_text, out_parsed, out_filename, out_file, calls, out_read>>
    /\ UNCHANGED <<dbVars, classifyVars, constrVars, neighborVars, dispatchVars, evalVars>>

FromStr ==
    /\ lpc = "written"
    /\ out_parsed' = layout_from_str(out_str)
    /\ lpc' = "reparsed"
    /\ UNCHANGED <<in_layout, in_text, out_str, out_filename, out_file, calls, out_read>>
    /\ UNCHANGED <<dbVars, classifyVars, constrVars, neighborVars, dispatchVars, evalVars>>

ToFilename ==
    /\ lpc = "layout"
    /\ out_filename' = layout_to_filename(in_layout)
    /\ lpc' = "named"
    /\ UNCHANGED <<in_layout, in_text, out_str, out_parsed, out_file, calls, out_read>>
    /\ UNCHANGED <<dbVars, classifyVars, constrVars, neighborVars, dispatchVars, evalVars>>

ParseText ==
    /\ lpc = "text"
    /\ out_parsed' = layout_from_str(in_text)
    /\ lpc' = "parsed"
    /\ UNCHANGED <<in_layout, in_text, out_str, out_filename, out_file, calls, out_read>>
    /\ UNCHANGED <<dbVars, classifyVars, constrVars, neighborVars, dispatchVars, evalVars>>

\* write_to_db, called when no other call is running: the first call creates
\* the file and writes the layout, the report and one '#', a later call
\* appends one '#'
write_to_db ==
    /\ lpc \in {"layout", "stored"}
    /\ calls < MaxCalls
    /\ IF lpc = "layout"
       THEN \E report \in ReportTexts :
                out_file' = layout_to_str(in_layout) \o report \o <<Hash>>
       ELSE out_file' = Append(out_file, Hash)
    /\ calls' = calls + 1
    /\ lpc' = "stored"
    /\ UNCHANGED <<in_layout, in_text, out_str, out_parsed, out_filename, out_read>>
    /\ UNCHANGED <<dbVars, classifyVars, constrVars, neighborVars, dispatchVars, evalVars>>

\* layouts_from_paths for the one .kbl file, which is the file written or the
\* input text: the layout is listed if its popularity is above 0
LayoutsFromPaths ==
    /\ lpc \in {"stored", "text"}
    /\ \E l \in {layout_from_file(IF lpc = "stored" THEN out_file ELSE in_text)} :
           out_read' = [exit |-> l.exit, layout |-> l.layout, popularity |-> l.popularity,
                        listed |-> ~l.exit /\ l.popularity > 0]
    /\ lpc' = IF lpc = "stored" THEN "read" ELSE "textread"
    /\ UNCHANGED <<in_layout, in_text, out_str, out_parsed, out_filename, out_file, calls>>
    /\ UNCHANGED <<dbVars, classifyVars, constrVars, neighborVars, dispatchVars, evalVars>>

NextLayout == ToStr \/ FromStr \/ ToFilename \/ ParseText \/ write_to_db \/ LayoutsFromPaths

SpecLayout == InitLayout /\ [][NextLayout]_vars

-----------------------------------------------------------------------------
(* Claims about the layout text format *)

\* C4: for every valid layout L, layout_from_str(layout_to_str(L)) is Ok(L),
\* every primary and secondary glyph the same, also for the keys that
\* layout_to_str writes as a single glyph.
C4_RoundTrip ==
    lpc = "reparsed" => (out_parsed.ok /\ out_parsed.layout = in_layout)

\* the keys of the first three lines of a text
TextRows(text) ==
    LET lines == Lines(text)
    IN  [l \in 1 .. Min(NumRows, Len(lines)) |-> SplitWhitespace(lines[l])]

CaseOk(c) == IsAlphabetic(c) /\ Len(ToLowercase(c)) = 1 /\ Len(ToUppercase(c)) = 1

\* the two glyphs a key of the text stands for
Expand(key) ==
    IF Len(key) = 1 THEN <<ToLowercase(key[1])[1], ToUppercase(key[1])[1]>> ELSE key

\* three lines of 10 keys of 1 or 2 chars, the 1-char keys convertible
ShapeOk(text) ==
    LET rows == TextRows(text)
    IN  /\ Len(rows) = NumRows
        /\ \A l \in 1 .. NumRows :
            /\ Len(rows[l]) = KeysPerRow
            /\ \A k \in 1 .. KeysPerRow :
                /\ Len(rows[l][k]) <= CharsPerKey
                /\ Len(rows[l][k]) = 1 => CaseOk(rows[l][k][1])

\* the layout a well-shaped text stands for
TextLayout(text) ==
    LET rows == TextRows(text)
    IN  [k \in KeyIdx |-> Expand(rows[(k \div KeysPerRow) + 1][(k % KeysPerRow) + 1])]

\* some glyph occurs twice among the 60 slots of a well-shaped text
HasDup(text) ==
    LET lay == TextLayout(text)
    IN  Cardinality({lay[k][i] : k \in KeyIdx, i \in 1 .. CharsPerKey})
            < NumKeys * CharsPerKey

MustReject(text) == ~ShapeOk(text) \/ HasDup(text)

HasShortKey(text) ==
    LET rows == TextRows(text)
    IN  \E l \in 1 .. Len(rows) : \E k \in 1 .. Len(rows[l]) : Len(rows[l][k]) = 1

\* C5: layout_from_str returns Err, and neither panics nor returns Ok, for a
\* text with fewer than three lines, a row of fewer or more than 10 keys, a key
\* of more than 2 chars, a 1-char key without single-char case forms, or a
\* glyph that occurs twice; an Ok result has 30 keys with 60 distinct glyphs,
\* each the expansion of the key at its place in the first three lines.
C5_ParserRejection ==
    lpc = "parsed" =>
        /\ out_parsed.err # "panic"
        /\ MustReject(in_text) => ~out_parsed.ok
        /\ out_parsed.ok =>
            /\ ShapeOk(in_text)
            /\ IsValidLayout(out_parsed.layout)
            /\ out_parsed.layout = TextLayout(in_text)

\* a well-shaped text of more than three lines with a duplicated glyph was rejected
C5_Witness ==
    /\ lpc = "parsed"
    /\ Len(Lines(in_text)) > NumRows
    /\ ShapeOk(in_text) /\ HasDup(in_text)
    /\ ~out_parsed.ok

\* a text of more than three lines with a 1-char key was accepted
C5_WitnessOk ==
    /\ lpc = "parsed"
    /\ Len(Lines(in_text)) > NumRows
    /\ HasShortKey(in_text)
    /\ out_parsed.ok

SubstituteLetters == {FilenameSubst[a] : a \in DOMAIN FilenameSubst}

\* C6: every char of layout_to_filename(L) is alphanumeric, '_', a substitute
\* letter of the fixed map, or part of the ".kbl" suffix.
C6_FilenameSafe ==
    lpc = "named" =>
        \A n \in 1 .. Len(out_filename) :
            \/ n > Len(out_filename) - Len(KblSuffix)
            \/ IsAlphanumeric(out_filename[n])
            \/ out_filename[n] = Underscore
            \/ out_filename[n] \in SubstituteLetters

-----------------------------------------------------------------------------
(* The layout database: anneal_command's worker closures (main.rs:209-233)  *)
(* each end with write_to_db (eval.rs:233-255) for the layout they found.   *)
(*                                                                          *)
(* A file's content is a sequence of tokens: "row1", "row2", "row3" (the    *)
(* lines of layout_to_str), "score" (a line of Scores::write), "extra" (a   *)
(* line of write_extra), each ending in LF, and "#".                        *)

NumTasks      == 2     \* -n: annealing tasks submitted to the pool
MaxJobs       == 2     \* --jobs: the pool's threads
MaxExtraLines == 2     \* lines write_extra may produce for a layout
BufCapacity   == 12    \* capacity of the BufWriter, in tokens

Tasks == 1 .. NumTasks

\* layouts the annealing runs may end with
DbLayouts == << QwertyLayout,
                [QwertyLayout EXCEPT ![0] = QwertyLayout[1], ![1] = QwertyLayout[0]] >>

DbIdx == 1 .. Len(DbLayouts)

\* let path = [dir, &layout_to_filename(&self.layout())]
PathOf(t) == layout_to_filename(DbLayouts[tlayout[t]])

ScoreLines == 8        \* number of lines Scores::write produces (eval.rs:542-609)

Repeat(tok, n) == [i \in 1 .. n |-> tok]

\* (faulty variant) the create path writes no '#'
CreatePieces_nohash(extra) ==
    << <<"row1", "row2", "row3">> >>
    \o Repeat(<<"score">>, ScoreLines) \o Repeat(<<"extra">>, extra)

\* what the create path hands to the BufWriter, one write after the other:
\* layout_to_str, the lines of write and of write_extra, and one '#'
CreatePieces(extra) ==
    << <<"row1", "row2", "row3">> >>
    \o Repeat(<<"score">>, ScoreLines) \o Repeat(<<"extra">>, extra)
    \o << <<"#">> >>

Running == {t \in Tasks : tpc[t] \notin {"queued", "done"}}

InitDb ==
    /\ max_count \in 1 .. MaxJobs
    /\ dir_files = << >>
    /\ tpc = [t \in Tasks |-> "queued"]
    /\ tlayout = [t \in Tasks |-> 1]
    /\ textra \in [DbIdx -> 0 .. MaxExtraLines]
    /\ tpending = [t \in Tasks |-> << >>]
    /\ tbuf = [t \in Tasks |-> << >>]
    /\ tpath = [t \in Tasks |-> "none"]
    /\ tresult = [t \in Tasks |-> "none"]
    /\ IdleLayout /\ IdleClassify /\ IdleConstraints /\ IdleNeighbor /\ IdleDispatch /\ IdleEval

\* a free pool thread takes the oldest queued task and runs the annealing to
\* its end; the layout found is scores.layout() of the final evaluation
RunAnneal(t) ==
    /\ tpc[t] = "queued"
    /\ \A u \in Tasks : u < t => tpc[u] # "queued"
    /\ Cardinality(Running) < max_count
    /\ \E l \in DbIdx : tlayout' = [tlayout EXCEPT ![t] = l]
    /\ tpc' = [tpc EXCEPT ![t] = "open"]
    /\ UNCHANGED <<max_count, dir_files, textra, tpending, tbuf, tpath, tresult>>
    /\ UNCHANGED <<layoutVars, classifyVars, constrVars, neighborVars, dispatchVars, evalVars>>

\* (faulty variant) the file is opened with create instead of create_new: opening
\* succeeds whether or not the file exists
OpenCreateNew_create(t) ==
    /\ tpc[t] = "open"
    /\ dir_files' = IF PathOf(t) \in DOMAIN dir_files THEN dir_files
                    ELSE (PathOf(t) :> << >>) @@ dir_files
    /\ tpath' = [tpath EXCEPT ![t] = "create"]
    /\ tpending' = [tpending EXCEPT ![t] = CreatePieces(textra[tlayout[t]])]
    /\ tpc' = [tpc EXCEPT ![t] = "write"]
    /\ UNCHANGED <<max_count, tlayout, textra, tbuf, tresult>>
    /\ UNCHANGED <<layoutVars, classifyVars, constrVars, neighborVars, dispatchVars, evalVars>>

\* OpenOptions::new().append(true).create_new(true).open(&path): creates the
\* empty file if there is none, atomically, and fails if there is one
OpenCreateNew(t) ==
    /\ tpc[t] = "open"
    /\ IF PathOf(t) \notin DOMAIN dir_files
       THEN /\ dir_files' = (PathOf(t) :> << >>) @@ dir_files
            /\ tpath' = [tpath EXCEPT ![t] = "create"]
            /\ tpending' = [tpending EXCEPT ![t] = CreatePieces(textra[tlayout[t]])]
            /\ tpc' = [tpc EXCEPT ![t] = "write"]
       ELSE /\ tpath' = [tpath EXCEPT ![t] = "append"]
            /\ tpc' = [tpc EXCEPT ![t] = "append_open"]
            /\ UNCHANGED <<dir_files, tpending>>
    /\ UNCHANGED <<max_count, tlayout, textra, tbuf, tresult>>
    /\ UNCHANGED <<layoutVars, classifyVars, constrVars, neighborVars, dispatchVars, evalVars>>

\* one write to the BufWriter: a piece that does not fit into the spare
\* capacity has the buffer written to the file first; a piece is smaller than
\* the capacity, so it is buffered
BufWrite(t) ==
    /\ tpc[t] = "write"
    /\ tpending[t] # << >>
    /\ LET piece == Head(tpending[t])
       IN  IF Len(tbuf[t]) + Len(piece) > BufCapacity
           THEN /\ dir_files' = [dir_files EXCEPT ![PathOf(t)] = @ \o tbuf[t]]
                /\ tbuf' = [tbuf EXCEPT ![t] = piece]
           ELSE /\ tbuf' = [tbuf EXCEPT ![t] = @ \o piece]
                /\ UNCHANGED dir_files
    /\ tpending' = [tpending EXCEPT ![t] = Tail(@)]
    /\ tpc' = [tpc EXCEPT ![t] = IF Tail(tpending[t]) = << >> THEN "flush" ELSE "write"]
    /\ UNCHANGED <<max_count, tlayout, textra, tpath, tresult>>
    /\ UNCHANGED <<layoutVars, classifyVars, constrVars, neighborVars, dispatchVars, evalVars>>

\* w.flush(): the buffer is appended to the file and write_to_db returns Ok
Flush(t) ==
    /\ tpc[t] = "flush"
    /\ dir_files' = [dir_files EXCEPT ![PathOf(t)] = @ \o tbuf[t]]
    /\ tbuf' = [tbuf EXCEPT ![t] = << >>]
    /\ tresult' = [tresult EXCEPT ![t] = "ok"]
    /\ tpc' = [tpc EXCEPT ![t] = "done"]
    /\ UNCHANGED <<max_count, tlayout, textra, tpending, tpath>>
    /\ UNCHANGED <<layoutVars, classifyVars, constrVars, neighborVars, dispatchVars, evalVars>>

\* OpenOptions::new().append(true).open(&path)?: fails if there is no file
AppendOpen(t) ==
    /\ tpc[t] = "append_open"
    /\ IF PathOf(t) \in DOMAIN dir_files
       THEN /\ tpc' = [tpc EXCEPT ![t] = "append_write"]
            /\ UNCHANGED tresult
       ELSE /\ tpc' = [tpc EXCEPT ![t] = "done"]
            /\ tresult' = [tresult EXCEPT ![t] = "err"]
    /\ UNCHANGED <<max_count, dir_files, tlayout, textra, tpending, tbuf, tpath>>
    /\ UNCHANGED <<layoutVars, classifyVars, constrVars, neighborVars, dispatchVars, evalVars>>

\* write!(file, "#"): one '#' is appended to the file
AppendHash(t) ==
    /\ tpc[t] = "append_write"
    /\ dir_files' = [dir_files EXCEPT ![PathOf(t)] = Append(@, "#")]
    /\ tresult' = [tresult EXCEPT ![t] = "ok"]
    /\ tpc' = [tpc EXCEPT ![t] = "done"]
    /\ UNCHANGED <<max_count, tlayout, textra, tpending, tbuf, tpath>>
    /\ UNCHANGED <<layoutVars, classifyVars, constrVars, neighborVars, dispatchVars, evalVars>>

NextDb ==
    \E t \in Tasks :
        \/ RunAnneal(t)
        \/ OpenCreateNew(t)
        \/ BufWrite(t)
        \/ Flush(t)
        \/ AppendOpen(t)
        \/ AppendHash(t)

SpecDb == InitDb /\ [][NextDb]_vars

-----------------------------------------------------------------------------
(* Claims about the layout database *)

IsLineToken(tok) == tok # "#"

\* string.lines().last(): the chars after the last LF, or the last line itself
\* when the content ends with LF
LastLine(content) ==
    LET ends == {i \in 1 .. Len(content) : IsLineToken(content[i])}
        last == IF ends = {} THEN 0 ELSE CHOOSE i \in ends : \A j \in ends : j <= i
    IN  IF content = << >> THEN << >>
        ELSE IF last = Len(content) THEN <<content[last]>>
        ELSE SubSeq(content, last + 1, Len(content))

\* the tasks that found layout l
TasksOf(l) == {t \in Tasks : tpc[t] # "queued" /\ tlayout[t] = l}
DoneOf(l)  == {t \in TasksOf(l) : tpc[t] = "done"}
FileOf(l)  == layout_to_filename(DbLayouts[l])

\* the layout rows, the score lines, the extra lines
Report(l) ==
    <<"row1", "row2", "row3">> \o Repeat("score", ScoreLines) \o Repeat("extra", textra[l])

\* C1: with calls of write_to_db that do not overlap (one pool thread), after
\* n >= 1 calls for a layout the directory has the file of that name, its
\* content is the report followed by a last line of exactly n '#'; the first
\* call took the create path and every later one the append path.
C1_SequentialDedup ==
    max_count = 1 =>
        \A l \in DbIdx :
            LET n == Cardinality(DoneOf(l))
            IN  (n >= 1 /\ TasksOf(l) = DoneOf(l)) =>
                    /\ FileOf(l) \in DOMAIN dir_files
                    /\ dir_files[FileOf(l)] = Report(l) \o Repeat("#", n)
                    /\ LastLine(dir_files[FileOf(l)]) = Repeat("#", n)
                    /\ Cardinality({t \in DoneOf(l) : tpath[t] = "create"}) = 1
                    /\ \A t \in DoneOf(l) : tpath[t] \in {"create", "append"}

\* two sequential calls for the same layout have returned: the last line is "##"
C1_Witness ==
    /\ max_count = 1
    /\ \E l \in DbIdx :
        /\ Cardinality(DoneOf(l)) = 2
        /\ TasksOf(l) = DoneOf(l)
        /\ LastLine(dir_files[FileOf(l)]) = <<"#", "#">>

\* C2: of the workers that call write_to_db for the same layout while its file
\* does not exist, exactly one takes the create path, every other one the
\* append path, and none returns an error.
C2_CreateRace ==
    /\ \A t \in Tasks : tresult[t] # "err"
    /\ \A l \in DbIdx :
        LET opened == {t \in TasksOf(l) : tpath[t] # "none"}
        IN  opened # {} =>
                /\ Cardinality({t \in opened : tpath[t] = "create"}) = 1
                /\ \A t \in opened : tpath[t] \in {"create", "append"}
                /\ \A t \in opened :
                     (tpath[t] = "append" /\ tpc[t] = "done") => tresult[t] = "ok"

\* two workers were inside write_to_db for the same layout at the same time;
\* one had created the file and not yet flushed, the other had appended
C2_Witness ==
    \E t1, t2 \in Tasks :
        /\ tlayout[t1] = tlayout[t2]
        /\ tpath[t1] = "create" /\ tpc[t1] \in {"write", "flush"}
        /\ tpath[t2] = "append" /\ tpc[t2] = "done" /\ tresult[t2] = "ok"

\* C3: once all k >= 2 concurrent calls for a layout have returned, the last
\* line of the file is exactly k '#' and the file begins with the three
\* layout rows.
C3_PopularityCount ==
    \A l \in DbIdx :
        LET k == Cardinality(DoneOf(l))
        IN  (k >= 2 /\ TasksOf(l) = DoneOf(l) /\ FileOf(l) \in DOMAIN dir_files) =>
                /\ LastLine(dir_files[FileOf(l)]) = Repeat("#", k)
                /\ SubSeq(dir_files[FileOf(l)], 1, 3) = <<"row1", "row2", "row3">>

-----------------------------------------------------------------------------
(* Keyboard model: KeyboardType, Hand, Finger (eval.rs:178-210) *)

Boards == {"Ortho", "ColStag", "Hex", "HexStag", "ANSI", "Angle", "ISO"}
Hands  == {"L", "R", "Any"}

\* enum Finger, by ordinal
Lp == 0
Lr == 1
Lm == 2
Li == 3
Th == 4
Ri == 5
Rm == 6
Rr == 7
Rp == 8

ThumbKey == 30
AllKeys  == 0 .. ThumbKey

BIGRAM_ALTERNATE == 0
BIGRAM_DROLL     == 1
BIGRAM_UROLL     == 2
BIGRAM_SAMEKEY   == 3
BIGRAM_LSB3      == 4
BIGRAM_LSB2      == 5
BIGRAM_LSB1      == 6
BIGRAM_SCISSOR   == 7
BIGRAM_SFB       == 8

TRIGRAM_NONE        == 0
TRIGRAM_D_SAMEKEY   == 1
TRIGRAM_SHD_SAMEKEY == 2
TRIGRAM_D_SFB       == 3
TRIGRAM_SHD_SFB     == 4
TRIGRAM_D_DROLL     == 5
TRIGRAM_D_UROLL     == 6
TRIGRAM_D_LSB3      == 7
TRIGRAM_D_LSB2      == 8
TRIGRAM_D_LSB1      == 9
TRIGRAM_D_SCISSOR   == 10
TRIGRAM_RROLL       == 11
TRIGRAM_REDIRECT    == 12
TRIGRAM_CONTORT     == 13
\* building the table ended in panic!("Unexpected disjointed same-hand trigram")
TRIGRAM_PANIC       == 0 - 1

Abs(x) == IF x < 0 THEN 0 - x ELSE x

KP(hand, finger, is_stretch) == [hand |-> hand, finger |-> finger, is_stretch |-> is_stretch]

\* KuehlmakModel::key_props: hand, finger and stretch flag of a key
key_props(key, board, thumb) ==
    LET row == key \div 10
        col == key % 10
    IN  IF row = 3 THEN KP(thumb, Th, FALSE)
        ELSE IF board \in {"Hex", "HexStag"} /\ row = 0 THEN
            CASE col = 0 -> KP("L", Lp, TRUE)
              [] col = 1 -> KP("L", Lp, FALSE)
              [] col = 2 -> KP("L", Lr, FALSE)
              [] col = 3 -> KP("L", Lm, FALSE)
              [] col = 4 -> KP("L", Li, FALSE)
              [] col = 5 -> KP("R", Ri, FALSE)
              [] col = 6 -> KP("R", Rm, FALSE)
              [] col = 7 -> KP("R", Rr, FALSE)
              [] col = 8 -> KP("R", Rp, FALSE)
              [] col = 9 -> KP("R", Rp, TRUE)
        ELSE IF board = "Angle" /\ row = 2 THEN
            CASE col = 0 -> KP("L", Lr, FALSE)
              [] col = 1 -> KP("L", Lm, FALSE)
              [] col = 2 -> KP("L", Li, FALSE)
              [] col = 3 -> KP("L", Li, TRUE)
              [] col = 4 -> KP("L", Li, TRUE)
              [] col = 5 -> KP("R", Ri, TRUE)
              [] col = 6 -> KP("R", Ri, FALSE)
              [] col = 7 -> KP("R", Rm, FALSE)
              [] col = 8 -> KP("R", Rr, FALSE)
              [] col = 9 -> KP("R", Rp, FALSE)
        ELSE
            CASE col = 0 -> KP("L", Lp, FALSE)
              [] col = 1 -> KP("L", Lr, FALSE)
              [] col = 2 -> KP("L", Lm, FALSE)
              [] col = 3 -> KP("L", Li, FALSE)
              [] col = 4 -> KP("L", Li, TRUE)
              [] col = 5 -> KP("R", Ri, TRUE)
              [] col = 6 -> KP("R", Ri, FALSE)
              [] col = 7 -> KP("R", Rm, FALSE)
              [] col = 8 -> KP("R", Rr, FALSE)
              [] col = 9 -> KP("R", Rp, FALSE)

\* Mirror a key from left to right hand or vice versa
mirror_key(k) == k + 9 - 2 * (k % 10)

\* scissors on the left hand going left->right, for the board type
scissors_lr(board) ==
    LET base == { <<0, 11>>, <<0, 21>>, <<0, 12>>, <<0, 22>>, <<0, 23>>, <<10, 21>>,
                  <<1, 22>>, <<1, 23>>, <<21, 2>>, <<21, 3>>, <<2, 23>>, <<22, 3>>,
                  <<0, 24>>, <<1, 24>>, <<2, 24>> }
        up(k)   == IF k \in 0 .. 3 THEN k + 1 ELSE k
        down(k) == IF k \in 21 .. 24 THEN k - 1 ELSE k
    IN  IF board \in {"Hex", "HexStag"}
        THEN { <<up(b[1]), up(b[2])>> : b \in base }
             \cup { <<0, 11>>, <<0, 21>>, <<0, 12>>, <<0, 22>>, <<0, 23>>, <<0, 24>>,
                    <<20, 1>>, <<20, 2>>, <<20, 3>> }
        ELSE IF board = "Angle"
        THEN { <<down(b[1]), down(b[2])>> : b \in base }
             \cup { <<0, 24>>, <<1, 24>>, <<2, 24>>, <<20, 4>>, <<21, 4>> }
        ELSE base \cup { <<20, 1>>, <<20, 2>>, <<20, 3>>, <<20, 4>>, <<21, 4>>, <<22, 4>> }

\* (faulty variant) the mirrored pairs are not added in reverse
scissors_no_mirrored_reverse(board) ==
    LET lr == scissors_lr(board)
    IN  lr \cup { <<b[2], b[1]>> : b \in lr }
           \cup { <<mirror_key(b[1]), mirror_key(b[2])>> : b \in lr }

\* the sorted scissor list, as the set that binary_search finds
scissors(board) ==
    LET lr == scissors_lr(board)
    IN  lr \cup { <<b[2], b[1]>> : b \in lr }
           \cup { <<mirror_key(b[1]), mirror_key(b[2])>> : b \in lr }
           \cup { <<mirror_key(b[2]), mirror_key(b[1])>> : b \in lr }

ScissorsOf == [b \in Boards |-> scissors(b)]

\* (faulty variant) the check for the same finger comes after the roll direction, so
\* that same-finger pairs of the ring finger count as rolls
BigramType_late_sfb(board, thumb, i, j) ==
    LET p0 == key_props(i, board, thumb)
        p1 == key_props(j, board, thumb)
    IN  IF p0.hand = "Any" \/ p0.hand # p1.hand THEN BIGRAM_ALTERNATE
        ELSE IF i = j THEN BIGRAM_SAMEKEY
        ELSE IF p0.finger = Lr \/ p0.finger = Rr THEN BIGRAM_DROLL
        ELSE IF p0.finger = p1.finger THEN BIGRAM_SFB
        ELSE BIGRAM_UROLL

\* bigram_types[i][j] as KuehlmakModel::new fills it
BigramType(board, thumb, i, j) ==
    LET p0 == key_props(i, board, thumb)
        p1 == key_props(j, board, thumb)
        f0 == p0.finger
        f1 == p1.finger
        s0 == p0.is_stretch
        s1 == p1.is_stretch
        is_scissor == <<i, j>> \in ScissorsOf[board]
    IN  IF p0.hand = "Any" THEN BIGRAM_ALTERNATE          \* continue
        ELSE IF p0.hand # p1.hand THEN BIGRAM_ALTERNATE    \* continue
        ELSE IF i = j THEN BIGRAM_SAMEKEY
        ELSE IF f0 = f1 THEN BIGRAM_SFB
        ELSE IF (s0 \/ s1) /\ f0 # Th /\ f1 # Th THEN
            IF (s0 /\ s1) \/ is_scissor THEN BIGRAM_LSB1
            ELSE IF Abs(f0 - f1) = 1 THEN BIGRAM_LSB1
            ELSE IF Abs(f0 - f1) = 2 THEN BIGRAM_LSB2
            ELSE BIGRAM_LSB3
        ELSE IF is_scissor THEN BIGRAM_SCISSOR
        ELSE IF f0 = Lr \/ f0 = Rr THEN BIGRAM_DROLL
        ELSE IF (f0 >= Li /\ f0 <= Ri) \/ (f1 >= Li /\ f1 <= Ri) THEN
            IF Abs(f0 - Th) > Abs(f1 - Th) THEN BIGRAM_DROLL ELSE BIGRAM_UROLL
        ELSE BIGRAM_UROLL

\* the match on bigram_types[i][k] for disjointed same-hand bigrams
DisjointedVariant(b) ==
    CASE b = BIGRAM_SFB     -> TRIGRAM_D_SFB
      [] b = BIGRAM_DROLL   -> TRIGRAM_D_DROLL
      [] b = BIGRAM_UROLL   -> TRIGRAM_D_UROLL
      [] b = BIGRAM_SAMEKEY -> TRIGRAM_D_SAMEKEY
      [] b = BIGRAM_LSB1    -> TRIGRAM_D_LSB1
      [] b = BIGRAM_LSB2    -> TRIGRAM_D_LSB2
      [] b = BIGRAM_LSB3    -> TRIGRAM_D_LSB3
      [] b = BIGRAM_SCISSOR -> TRIGRAM_D_SCISSOR
      [] OTHER              -> TRIGRAM_PANIC

\* (faulty variant) the outer bigram is looked up in the wrong order
TrigramType_swapped(board, thumb, i, j, k) ==
    LET h0 == key_props(i, board, thumb).hand
        h1 == key_props(j, board, thumb).hand
        h2 == key_props(k, board, thumb).hand
    IN  IF h0 = "Any" \/ h2 = "Any" THEN TRIGRAM_NONE
        ELSE IF h0 = h2 /\ h0 # h1 THEN DisjointedVariant(BigramType(board, thumb, k, i))
        ELSE TRIGRAM_NONE

\* trigram_types[i][j][k] as KuehlmakModel::new fills it
TrigramType(board, thumb, i, j, k) ==
    LET p0 == key_props(i, board, thumb)
        p1 == key_props(j, board, thumb)
        p2 == key_props(k, board, thumb)
        h0 == p0.hand
        h1 == p1.hand
        h2 == p2.hand
        f0 == p0.finger
        f1 == p1.finger
        f2 == p2.finger
        bij == BigramType(board, thumb, i, j)
        bjk == BigramType(board, thumb, j, k)
        bik == BigramType(board, thumb, i, k)
    IN  IF h0 = "Any" THEN TRIGRAM_NONE                    \* continue
        ELSE IF h2 = "Any" THEN TRIGRAM_NONE               \* continue
        ELSE IF h0 = h2 /\ h0 # h1 THEN DisjointedVariant(bik)
        ELSE IF h0 = h1 /\ h1 = h2 THEN
            IF i = k /\ f0 # f1 THEN TRIGRAM_SHD_SAMEKEY
            ELSE IF f0 = f2 /\ f0 # f1 THEN TRIGRAM_SHD_SFB
            ELSE IF bij >= BIGRAM_SAMEKEY /\ bjk >= BIGRAM_SAMEKEY THEN TRIGRAM_CONTORT
            ELSE IF f0 # f1 /\ f1 # f2 /\ bik = BIGRAM_SCISSOR THEN TRIGRAM_CONTORT
            ELSE IF f0 # f1 /\ f1 # f2 /\ ((f2 > f1) # (f1 > f0)) THEN TRIGRAM_REDIRECT
            ELSE IF /\ bij >= BIGRAM_DROLL /\ bij < BIGRAM_LSB1
                    /\ bjk >= BIGRAM_DROLL /\ bjk < BIGRAM_LSB1 THEN TRIGRAM_RROLL
            ELSE TRIGRAM_NONE
        ELSE TRIGRAM_NONE

\* home_col of key_props: the column of the home position of the key's finger
home_col(key, board) ==
    LET row == key \div 10
        col == key % 10
    IN  IF row = 3 THEN 0
        ELSE IF board \in {"Hex", "HexStag"} /\ row = 0
        THEN <<0, 0, 1, 2, 3, 6, 7, 8, 9, 9>>[col + 1]
        ELSE IF board = "Angle" /\ row = 2
        THEN <<0, 1, 2, 2, 2, 6, 6, 7, 8, 9>>[col + 1]
        ELSE <<0, 1, 2, 3, 3, 6, 6, 7, 8, 9>>[col + 1]

\* KEY_OFFSETS_*[row][h], in quarters of a key width; h is 0 for the left
\* hand and for Any, 1 for the right hand
key_offsets(board, row, h) ==
    CASE board \in {"Ortho", "ColStag"} -> 0
      [] board \in {"Hex", "HexStag"}   -> IF row = 0 THEN (IF h = 0 THEN 0 - 4 ELSE 4) ELSE 0
      [] board = "ANSI"                 -> IF row = 0 THEN 0 - 1 ELSE IF row = 2 THEN 2 ELSE 0
      [] OTHER                          -> IF row = 0 THEN 0 - 1
                                           ELSE IF row = 2 THEN (IF h = 0 THEN 0 - 2 ELSE 2)
                                           ELSE 0

\* x of key_props, in quarters: col - home_col + key_offsets[row][h]
key_x(key, board, thumb) ==
    LET hand == key_props(key, board, thumb).hand
    IN  4 * (key % 10) - 4 * home_col(key, board)
          + key_offsets(board, key \div 10, IF hand = "R" THEN 1 ELSE 0)

\* y of key_props: 0 for the thumb key, else row - 1
key_y(key) == IF key \div 10 = 3 THEN 0 ELSE key \div 10 - 1

\* d_abs = (x*x + y*y).sqrt(): its square, in sixteenths
d_abs_squared(key, board, thumb) ==
    key_x(key, board, thumb) * key_x(key, board, thumb) + 16 * key_y(key) * key_y(key)

-----------------------------------------------------------------------------
(* SpecClassify: a model is built for a board type and a space_thumb       *)
(* setting, and its tables are read at a triple of keys                     *)

InitClassify ==
    /\ board_type \in Boards
    /\ space_thumb \in Hands
    /\ ki = 0 /\ kj = 0 /\ kk = 0
    /\ bigram_ij = NotRead /\ bigram_ik = NotRead /\ bigram_jk = NotRead
    /\ d_abs_i = NotRead
    /\ trigram_ijk = NotRead
    /\ IdleLayout /\ IdleDb /\ IdleConstraints /\ IdleNeighbor /\ IdleDispatch /\ IdleEval

\* the model is built; bigram_types[i][j], bigram_types[i][k],
\* bigram_types[j][k], trigram_types[i][j][k] and key_props[i].d_abs are read
Classify ==
    /\ bigram_ij = NotRead
    /\ \E i, j, k \in AllKeys :
        /\ ki' = i /\ kj' = j /\ kk' = k
        /\ bigram_ij' = BigramType(board_type, space_thumb, i, j)
        /\ bigram_ik' = BigramType(board_type, space_thumb, i, k)
        /\ bigram_jk' = BigramType(board_type, space_thumb, j, k)
        /\ d_abs_i' = d_abs_squared(i, board_type, space_thumb)
        /\ trigram_ijk' = TrigramType(board_type, space_thumb, i, j, k)
    /\ UNCHANGED <<board_type, space_thumb>>
    /\ UNCHANGED <<layoutVars, dbVars, constrVars, neighborVars, dispatchVars, evalVars>>

NextClassify == Classify

SpecClassify == InitClassify /\ [][NextClassify]_vars

-----------------------------------------------------------------------------
(* Claims about the classifier tables *)

Looked == bigram_ij # NotRead

HandOf(k)   == key_props(k, board_type, space_thumb).hand
FingerOf(k) == key_props(k, board_type, space_thumb).finger

SameHandBigrams ==
    { BIGRAM_SAMEKEY, BIGRAM_SFB, BIGRAM_LSB1, BIGRAM_LSB2, BIGRAM_LSB3,
      BIGRAM_SCISSOR, BIGRAM_DROLL, BIGRAM_UROLL }

\* C9: for keys i, j < 30, bigram_types[i][j] is Alternate exactly when the
\* keys are on different hands; on the same hand it is one of the eight
\* same-hand types, SameKey exactly when i = j and SFB exactly when i # j and
\* the fingers are the same.
C9_ClassifierCoverage ==
    (Looked /\ ki < ThumbKey /\ kj < ThumbKey) =>
        /\ (bigram_ij = BIGRAM_ALTERNATE) <=> (HandOf(ki) # HandOf(kj))
        /\ HandOf(ki) = HandOf(kj) =>
            /\ bigram_ij \in SameHandBigrams
            /\ (bigram_ij = BIGRAM_SAMEKEY) <=> (ki = kj)
            /\ (bigram_ij = BIGRAM_SFB) <=> (ki # kj /\ FingerOf(ki) = FingerOf(kj))

\* two different keys of the ring finger were classified as a same-finger bigram
C9_Witness ==
    /\ Looked /\ ki < ThumbKey /\ kj < ThumbKey
    /\ ki # kj /\ FingerOf(ki) = Lr /\ FingerOf(kj) = Lr
    /\ bigram_ij = BIGRAM_SFB

\* the d-variant of a same-hand bigram type
DVariant ==
    (BIGRAM_SFB :> TRIGRAM_D_SFB) @@ (BIGRAM_DROLL :> TRIGRAM_D_DROLL) @@
    (BIGRAM_UROLL :> TRIGRAM_D_UROLL) @@ (BIGRAM_SAMEKEY :> TRIGRAM_D_SAMEKEY) @@
    (BIGRAM_LSB1 :> TRIGRAM_D_LSB1) @@ (BIGRAM_LSB2 :> TRIGRAM_D_LSB2) @@
    (BIGRAM_LSB3 :> TRIGRAM_D_LSB3) @@ (BIGRAM_SCISSOR :> TRIGRAM_D_SCISSOR)

IsDVariantOfOuter ==
    /\ trigram_ijk # TRIGRAM_PANIC
    /\ bigram_ik \in DOMAIN DVariant
    /\ trigram_ijk = DVariant[bigram_ik]

\* C10 as claimed: for all keys i, j, k in 0..30 with hand(i) = hand(k) and
\* hand(j) # hand(i), trigram_types[i][j][k] is the d-variant of
\* bigram_types[i][k], and building the table does not panic.
C10_TrigramClosure_AsClaimed ==
    (Looked /\ HandOf(ki) = HandOf(kk) /\ HandOf(kj) # HandOf(ki)) => IsDVariantOfOuter

\* C10 as amended: the same for the keys i, k of the left or the right hand
\* (not for a thumb key whose hand is Any).
C10_TrigramClosure ==
    /\ trigram_ijk # TRIGRAM_PANIC
    /\ (Looked /\ HandOf(ki) = HandOf(kk) /\ HandOf(ki) # "Any" /\ HandOf(kj) # HandOf(ki))
           => IsDVariantOfOuter

\* the thumb key, on the left hand, is the first and the last key of a trigram
\* whose middle key is on the right hand
C10_Witness ==
    /\ Looked /\ ki = ThumbKey /\ kk = ThumbKey /\ HandOf(ki) = "L" /\ HandOf(kj) = "R"
    /\ trigram_ijk = TRIGRAM_D_SAMEKEY

-----------------------------------------------------------------------------
(* f64 values: a finite value is the ratio n/d in lowest terms with d > 0;  *)
(* d = 0 stands for +inf (n = 1), -inf (n = -1) and NaN (n = 0).  Rounding  *)
(* is not modelled.                                                          *)

RECURSIVE GCD(_, _)
GCD(a, b) == IF b = 0 THEN a ELSE GCD(b, a % b)

Sign(x) == IF x > 0 THEN 1 ELSE IF x < 0 THEN 0 - 1 ELSE 0

Ratio(n, d) == LET g == GCD(Abs(n), d) IN [n |-> Sign(n) * (Abs(n) \div g), d |-> d \div g]

F(n)   == [n |-> n, d |-> 1]
PosInf == [n |-> 1, d |-> 0]
NegInf == [n |-> 0 - 1, d |-> 0]
NaN    == [n |-> 0, d |-> 0]

IsNaN(a) == a.d = 0 /\ a.n = 0
IsInf(a) == a.d = 0 /\ a.n # 0

FNeg(a) == [n |-> 0 - a.n, d |-> a.d]

FAdd(a, b) ==
    IF IsNaN(a) \/ IsNaN(b) THEN NaN
    ELSE IF IsInf(a) THEN (IF IsInf(b) /\ b.n # a.n THEN NaN ELSE a)
    ELSE IF IsInf(b) THEN b
    ELSE Ratio(a.n * b.d + b.n * a.d, a.d * b.d)

FSub(a, b) == FAdd(a, FNeg(b))

FMul(a, b) ==
    IF IsNaN(a) \/ IsNaN(b) THEN NaN
    ELSE IF IsInf(a) \/ IsInf(b) THEN [n |-> Sign(a.n) * Sign(b.n), d |-> 0]
    ELSE Ratio(a.n * b.n, a.d * b.d)

\* x / 0.0 is +inf or -inf by the sign of x, and 0.0 / 0.0 is NaN
FDiv(a, b) ==
    IF IsNaN(a) \/ IsNaN(b) THEN NaN
    ELSE IF IsInf(a) THEN (IF IsInf(b) THEN NaN
                           ELSE [n |-> a.n * (IF b.n < 0 THEN 0 - 1 ELSE 1), d |-> 0])
    ELSE IF IsInf(b) THEN F(0)
    ELSE IF b.n = 0 THEN [n |-> Sign(a.n), d |-> 0]
    ELSE Ratio(a.n * b.d * Sign(b.n), a.d * Abs(b.n))

FLess(a, b) == ~IsNaN(a) /\ ~IsNaN(b) /\ a.n * b.d < b.n * a.d

\* f64::max: a NaN operand is ignored
FMax(a, b) == IF IsNaN(a) THEN b ELSE IF IsNaN(b) THEN a ELSE IF FLess(a, b) THEN b ELSE a

-----------------------------------------------------------------------------
(* Constraints (eval.rs:1148-1322) and the forced keys of the configuration *)
(* (main.rs:60-71, 100-109)                                                 *)

None    == << >>
Some(x) == <<x>>

Contains(str, c) == \E n \in 1 .. Len(str) : str[n] = c

Count(S) == Cardinality(S)

\* ConstraintParams::default()
DefaultConstraints ==
    [ ref_layout |-> None, ref_weight |-> F(0), ref_threshold |-> F(0),
      top_keys |-> None, mid_keys |-> None, bot_keys |-> None,
      homing_keys |-> None, homing_only_keys |-> None,
      top_weight |-> F(0), mid_weight |-> F(0), bot_weight |-> F(0),
      homing_weight |-> F(0), zxcv |-> F(0), nonalpha |-> F(0),
      forced_keys |-> None, forced_keys_vec |-> << >> ]

\* the array of (index, symbol) of a layout, sorted by symbol (stable)
SortedBySymbol(lay) ==
    LET rank == [i \in KeyIdx |->
                    Cardinality({j \in KeyIdx : lay[j][1] < lay[i][1]})
                    + Cardinality({j \in 0 .. i - 1 : lay[j][1] = lay[i][1]})]
        sorted == [n \in KeyIdx |->
                      LET i == CHOOSE i \in KeyIdx : rank[i] = n IN <<i, lay[i][1]>>]
    \* the array is built and sorted once, before the loop reads it
    IN  IF rank = rank /\ sorted = sorted THEN sorted ELSE sorted

\* the while loop of layout_distance over the two sorted arrays
RECURSIVE DistanceLoop(_, _, _, _, _, _, _)
DistanceLoop(a, b, i, j, distance, board, thumb) ==
    IF ~(i < NumKeys /\ j < NumKeys) THEN distance
    ELSE IF a[i][2] < b[j][2] THEN DistanceLoop(a, b, i + 1, j, distance, board, thumb)
    ELSE IF a[i][2] > b[j][2] THEN DistanceLoop(a, b, i, j + 1, distance, board, thumb)
    ELSE LET pa == key_props(a[i][1], board, thumb)
             pb == key_props(b[j][1], board, thumb)
             d  == IF a[i][1] = b[j][1] THEN distance - 4
                   ELSE IF pa.finger = pb.finger THEN distance - 2
                   ELSE IF pa.hand = pb.hand THEN distance - 1
                   ELSE distance
         IN  DistanceLoop(a, b, i + 1, j + 1, d, board, thumb)

layout_distance(a, b, board, thumb) ==
    Ratio(DistanceLoop(SortedBySymbol(a), SortedBySymbol(b), 0, 0, 120, board, thumb), 120)

eval_zxcv(layout) ==
    LET zxcv  == <<122, 120, 99, 118>>
        hits  == { k \in 20 .. 24 : Contains(zxcv, layout[k][1]) }
        n     == Count(hits)
        nth(m) == CHOOSE k \in hits : Count({h \in hits : h < k}) = m - 1
        found == [m \in 1 .. 4 |-> IF m <= n THEN layout[nth(m)][1] ELSE SPACE]
    IN  Ratio(5 - (IF zxcv = found THEN n + 1 ELSE n), 5)

eval_nonalpha(layout) ==
    LET n == (IF IsAlphabetic(layout[9][1]) THEN 1 ELSE 0)
             + Count({ k \in 27 .. 29 : IsAlphabetic(layout[k][1]) })
    IN  Ratio(n, 4)

\* (faulty variant) no bonus when every forced key is in place
eval_forced_coded_nobonus(layout, forced_keys) ==
    LET mismatched == Count({ n \in 1 .. Len(forced_keys) :
                                 layout[forced_keys[n][2]][1] # forced_keys[n][1] })
    IN  FDiv(F(mismatched), F(Len(forced_keys)))

eval_forced_coded(layout, forced_keys) ==
    LET mismatched == Count({ n \in 1 .. Len(forced_keys) :
                                 layout[forced_keys[n][2]][1] # forced_keys[n][1] })
        total == F(Len(forced_keys))
    IN  IF mismatched = 0 THEN FDiv(F(0 - 1), total)
        ELSE FDiv(F(mismatched), total)

eval_row(layout, row, keys) ==
    IF keys = None THEN F(0)
    ELSE FAdd(FDiv(F(Count({ k \in row * 10 .. (row + 1) * 10 - 1 :
                                Contains(keys[1], layout[k][1]) })),
                   F(0 - 10)),
              F(1))

\* a loop over the homing-only keys that looks for them on every row: a key
\* of another row is in a wrong place
RECURSIVE HomingOnlyLoop_any_row(_, _, _, _)
HomingOnlyLoop_any_row(layout, keys, n, homing_finger) ==
    IF n > Len(keys) THEN [finger |-> homing_finger, wrong |-> FALSE]
    ELSE LET found == { q \in 0 .. 29 : layout[q][1] = keys[n] }
             pos   == CHOOSE q \in found : \A r \in found : q <= r
         IN  IF found = {} THEN HomingOnlyLoop_any_row(layout, keys, n + 1, homing_finger)
             ELSE IF pos \in {13, 16} /\ homing_finger \in {0, 1}
             THEN HomingOnlyLoop_any_row(layout, keys, n + 1, 1)
             ELSE IF pos \in {12, 17} /\ homing_finger \in {0, 2}
             THEN HomingOnlyLoop_any_row(layout, keys, n + 1, 2)
             ELSE [finger |-> homing_finger, wrong |-> TRUE]

\* the loop over the homing-only keys: the homing finger found and whether a
\* homing-only key is in a wrong place (the loop breaks there)
RECURSIVE HomingOnlyLoop(_, _, _, _)
HomingOnlyLoop(layout, keys, n, homing_finger) ==
    IF n > Len(keys) THEN [finger |-> homing_finger, wrong |-> FALSE]
    ELSE LET found == { q \in 0 .. 9 : layout[10 + q][1] = keys[n] }
             pos   == CHOOSE q \in found : \A r \in found : q <= r
         IN  IF found = {} THEN HomingOnlyLoop(layout, keys, n + 1, homing_finger)
             ELSE IF pos = 3 \/ pos = 6 THEN
                 IF homing_finger = 0 THEN HomingOnlyLoop(layout, keys, n + 1, 1)
                 ELSE IF homing_finger # 1 THEN [finger |-> homing_finger, wrong |-> TRUE]
                 ELSE HomingOnlyLoop(layout, keys, n + 1, homing_finger)
             ELSE IF pos = 2 \/ pos = 7 THEN
                 IF homing_finger = 0 THEN HomingOnlyLoop(layout, keys, n + 1, 2)
                 ELSE IF homing_finger # 2 THEN [finger |-> homing_finger, wrong |-> TRUE]
                 ELSE HomingOnlyLoop(layout, keys, n + 1, homing_finger)
             ELSE [finger |-> homing_finger, wrong |-> TRUE]

eval_homing(layout, keys, homing_only_keys) ==
    IF keys = None THEN F(0)
    ELSE LET has(k) == IF Contains(keys[1], layout[k][1]) THEN 1 ELSE 0
             index  == has(13) + has(16)
             middle == has(12) + has(17)
             only   == IF homing_only_keys = None
                       THEN [finger |-> 0, wrong |-> FALSE]
                       ELSE HomingOnlyLoop(layout, homing_only_keys[1], 1, 0)
             best   == CASE only.finger = 0 -> Max(index, middle)
                         [] only.finger = 1 -> index
                         [] OTHER           -> middle
         IN  Ratio(2 - best + (IF only.wrong THEN 1 ELSE 0), 3)

\* eval_constraints up to and without the forced keys
ConstraintsBeforeForced(config, layout) ==
    LET params == config.constraints
        s0 == IF params.ref_layout # None /\ params.ref_weight # F(0)
              THEN FMul(FMul(FMax(FSub(layout_distance(layout, params.ref_layout[1],
                                                       config.board_type, config.space_thumb),
                                       params.ref_threshold), F(0)),
                             FSub(F(1), params.ref_threshold)),
                        params.ref_weight)
              ELSE F(0)
        s1 == FAdd(s0, FMul(eval_row(layout, 0, params.top_keys), params.top_weight))
        s2 == FAdd(s1, FMul(eval_row(layout, 1, params.mid_keys), params.mid_weight))
        s3 == FAdd(s2, FMul(eval_row(layout, 2, params.bot_keys), params.bot_weight))
        s4 == FAdd(s3, FMul(eval_homing(layout, params.homing_keys, params.homing_only_keys),
                            params.homing_weight))
        s5 == IF params.zxcv # F(0) THEN FAdd(s4, FMul(params.zxcv, eval_zxcv(layout))) ELSE s4
        s6 == IF params.nonalpha # F(0)
              THEN FAdd(s5, FMul(params.nonalpha, eval_nonalpha(layout))) ELSE s5
    IN  s6

eval_constraints(config, layout) ==
    FAdd(ConstraintsBeforeForced(config, layout),
         eval_forced_coded(layout, config.constraints.forced_keys_vec))

\* KuehlmakModel::is_symmetrical
is_symmetrical(config) ==
    IF config.board_type \in {"ANSI", "Angle", "ISO"} THEN FALSE
    ELSE /\ config.space_thumb = "Any"
         /\ config.constraints.ref_layout = None
         /\ config.constraints.zxcv = F(0)
         /\ config.constraints.nonalpha = F(0)

\* layout[0..10].reverse(); layout[10..20].reverse(); layout[20..30].reverse()
ReverseRows(lay) ==
    [k \in KeyIdx |-> lay[(k \div KeysPerRow) * KeysPerRow + (KeysPerRow - 1) - (k % KeysPerRow)]]

Dot == 46

\* (faulty variant) the column of '.' is not looked at
Scores_layout_any_column(config, stored) ==
    IF is_symmetrical(config) /\ \E k \in KeyIdx : stored[k][1] = Dot \/ stored[k][2] = Dot
    THEN ReverseRows(stored)
    ELSE stored

\* KuehlmakScores::layout
Scores_layout(config, stored) ==
    LET hits == { k \in KeyIdx : stored[k][1] = Dot \/ stored[k][2] = Dot }
        i    == CHOOSE k \in hits : \A k2 \in hits : k <= k2
    IN  IF is_symmetrical(config) /\ hits # {} /\ i % 10 < 5
        THEN ReverseRows(stored)
        ELSE stored

\* find_char_indexes_in_layout: None when a char is on no key
find_char_indexes_in_layout(layout, search_string) ==
    LET index(c) == CHOOSE k \in KeyIdx :
                        /\ layout[k][1] = c
                        /\ \A k2 \in KeyIdx : layout[k2][1] = c => k2 <= k
    IN  IF \A n \in 1 .. Len(search_string) : \E k \in KeyIdx : layout[k][1] = search_string[n]
        THEN Some([n \in 1 .. Len(search_string) |->
                      <<search_string[n], index(search_string[n])>>])
        ELSE None

-----------------------------------------------------------------------------
(* SpecConstraints: a configuration is read, its forced keys are located in *)
(* the initial layout, and the constraints of a layout are evaluated        *)

SwapKeys(lay, a, b) == [lay EXCEPT ![a] = lay[b], ![b] = lay[a]]

\* the primary symbols of a row of the QWERTY layout, as a string
RowString(row) == [n \in 1 .. KeysPerRow |-> QwertyLayout[row * 10 + n - 1][1]]

\* keys whose symbols the layouts under evaluation exchange
ConstrKeys == {0, 2, 9, 12, 13, 22, 28, 29}

\* QWERTY with '.' as the shifted symbol of the key of 'w'
QwertyDotShifted == [QwertyLayout EXCEPT ![1] = <<119, 46>>, ![28] = <<87, 62>>]

ConstrLayouts ==
    {QwertyLayout, QwertyDotShifted}
    \cup { SwapKeys(QwertyLayout, a, b) : a, b \in ConstrKeys }

ConstraintSets ==
    { DefaultConstraints,
      [DefaultConstraints EXCEPT !.top_keys = Some(RowString(0)), !.top_weight = F(1),
                                 !.mid_keys = Some(RowString(1)), !.mid_weight = F(1),
                                 !.bot_keys = Some(RowString(2)), !.bot_weight = Ratio(1, 2)],
      [DefaultConstraints EXCEPT !.homing_keys = Some(<<102, 106>>),      \* "fj"
                                 !.homing_weight = F(1)],
      [DefaultConstraints EXCEPT !.homing_keys = Some(<<100, 107>>),      \* "dk"
                                 !.homing_only_keys = Some(<<102, 100>>), \* "fd"
                                 !.homing_weight = Ratio(1, 2)],
      [DefaultConstraints EXCEPT !.homing_keys = Some(<<102, 106>>),      \* "fj"
                                 !.homing_only_keys = Some(<<102, 101>>), \* "fe"
                                 !.homing_weight = F(1)],
      [DefaultConstraints EXCEPT !.homing_only_keys = Some(<<102, 100>>), \* "fd"
                                 !.homing_weight = F(1)],
      [DefaultConstraints EXCEPT !.zxcv = F(1), !.nonalpha = Ratio(1, 2)],
      [DefaultConstraints EXCEPT !.ref_layout = Some(QwertyLayout), !.ref_weight = F(1)],
      [DefaultConstraints EXCEPT !.ref_layout = Some(QwertyLayout), !.ref_weight = F(2),
                                 !.ref_threshold = Ratio(1, 60)],
      [DefaultConstraints EXCEPT !.ref_layout = Some(QwertyLayout)] }

\* forced_keys of the configuration: absent, "", "e", "eq", "ee", "é"
ForcedKeyStrings ==
    { None, Some(<< >>), Some(<<101>>), Some(<<101, 113>>), Some(<<101, 101>>),
      Some(<<233>>), Some(<<101, 233>>) }

InitialLayouts == { None, Some(QwertyLayout), Some(SwapKeys(QwertyLayout, 2, 13)) }

Configs ==
    { [ board_type |-> b[1], space_thumb |-> b[2], initial_layout |-> il,
        constraints |-> [c EXCEPT !.forced_keys = fk] ] :
        b \in {<<"Ortho", "Any">>, <<"Ortho", "L">>, <<"Angle", "Any">>},
        il \in InitialLayouts, c \in ConstraintSets, fk \in ForcedKeyStrings }

InitConstraints ==
    /\ cpc = "config"
    /\ c_params \in Configs
    /\ c_layout \in ConstrLayouts
    /\ c_forced = << >>
    /\ c_score = << >>
    /\ c_returned = << >>
    /\ c_rescore = << >>
    /\ c_homing = << >>
    /\ IdleLayout /\ IdleDb /\ IdleClassify /\ IdleNeighbor /\ IdleDispatch /\ IdleEval

\* config_from_file: the forced keys are looked up in the initial layout
ConfigFromFile ==
    /\ cpc = "config"
    /\ LET forced_keys == c_params.constraints.forced_keys
       IN  IF forced_keys = None
           THEN cpc' = "ready" /\ UNCHANGED c_params
           ELSE IF c_params.initial_layout = None
           THEN cpc' = "panic" /\ UNCHANGED c_params    \* expect() fails
           ELSE LET indexes == find_char_indexes_in_layout(c_params.initial_layout[1],
                                                           forced_keys[1])
                IN  /\ cpc' = "ready"
                    /\ c_params' = IF indexes # None
                                   THEN [c_params EXCEPT
                                            !.constraints.forced_keys_vec = indexes[1]]
                                   ELSE c_params
    /\ UNCHANGED <<c_layout, c_forced, c_score, c_returned, c_rescore, c_homing>>
    /\ UNCHANGED <<layoutVars, dbVars, classifyVars, neighborVars, dispatchVars, evalVars>>

\* eval_layout computes the constraints of the layout
EvalConstraints ==
    /\ cpc = "ready"
    /\ cpc' = "done"
    /\ c_forced' = eval_forced_coded(c_layout, c_params.constraints.forced_keys_vec)
    /\ c_score' = eval_constraints(c_params, c_layout)
    /\ c_homing' = eval_homing(c_layout, c_params.constraints.homing_keys,
                            c_params.constraints.homing_only_keys)
    /\ UNCHANGED <<c_params, c_layout, c_returned, c_rescore>>
    /\ UNCHANGED <<layoutVars, dbVars, classifyVars, neighborVars, dispatchVars, evalVars>>

\* the final evaluation of a worker: eval_layout(&scores.layout(), ..)
FinalEval ==
    /\ cpc = "done"
    /\ cpc' = "final"
    /\ c_returned' = Scores_layout(c_params, c_layout)
    /\ c_rescore' = eval_constraints(c_params, c_returned')
    /\ UNCHANGED <<c_params, c_layout, c_forced, c_score, c_homing>>
    /\ UNCHANGED <<layoutVars, dbVars, classifyVars, neighborVars, dispatchVars, evalVars>>

NextConstraints == ConfigFromFile \/ EvalConstraints \/ FinalEval

SpecConstraints == InitConstraints /\ [][NextConstraints]_vars

-----------------------------------------------------------------------------
(* Claims about the constraints *)

AllEmpty(c) ==
    /\ c.ref_layout = None
    /\ c.top_keys = None /\ c.mid_keys = None /\ c.bot_keys = None
    /\ c.homing_keys = None /\ c.homing_only_keys = None
    /\ c.zxcv = F(0) /\ c.nonalpha = F(0)
    /\ c.forced_keys_vec = << >>

\* C7: when the constraint parameters are all empty (no ref_layout, no
\* top/mid/bot keys, no homing keys, zxcv = 0, nonalpha = 0, no forced keys),
\* eval_constraints returns exactly 0 for every layout.
C7_ConstraintIdempotence ==
    (cpc = "done" /\ AllEmpty(c_params.constraints)) => c_score = F(0)

ForcedVec == c_params.constraints.forced_keys_vec

ViolatedPairs == { n \in 1 .. Len(ForcedVec) : c_layout[ForcedVec[n][2]][1] # ForcedVec[n][1] }

\* C8: for N >= 1 forced (char, index) pairs, eval_forced_coded returns m/N
\* when m >= 1 pairs are violated and -1/N when none is; with the single pair
\* ('e', 13) satisfied it is -1; it is added to the constraints unweighted.
C8_ForcedKeyPenalty ==
    (cpc = "done" /\ Len(ForcedVec) >= 1) =>
        LET N == Len(ForcedVec)
            m == Cardinality(ViolatedPairs)
        IN  /\ m >= 1 => c_forced = Ratio(m, N)
            /\ m = 0 => c_forced = Ratio(0 - 1, N)
            /\ (ForcedVec = << <<101, 13>> >> /\ c_layout[13][1] = 101) => c_forced = F(0 - 1)
            /\ c_score = FAdd(ConstraintsBeforeForced(c_params, c_layout), c_forced)

\* the single forced pair ('e', 13) is satisfied by the layout, under a
\* homing constraint of weight 1/2
C8_Witness ==
    /\ cpc = "done"
    /\ ForcedVec = << <<101, 13>> >>
    /\ c_layout[13][1] = 101
    /\ c_params.constraints.homing_weight = Ratio(1, 2)
    /\ c_forced = F(0 - 1)

-----------------------------------------------------------------------------
(* Further claims about the classifier tables *)

OrthoFamily == {"Ortho", "ColStag", "Hex", "HexStag"}

BigramAt(a, b) == BigramType(board_type, space_thumb, a, b)

\* the scissor list of a board holds, with a pair, the reversed pair, the
\* mirrored pair and the mirrored reversed pair
ScissorListClosed ==
    [board \in Boards |->
        \A b \in ScissorsOf[board] :
            /\ <<b[2], b[1]>> \in ScissorsOf[board]
            /\ <<mirror_key(b[1]), mirror_key(b[2])>> \in ScissorsOf[board]
            /\ <<mirror_key(b[2]), mirror_key(b[1])>> \in ScissorsOf[board]]

\* C11: for the boards Ortho, ColStag, Hex and HexStag and keys a, b < 30, if
\* bigram_types[a][b] is Scissor then so are bigram_types[b][a],
\* bigram_types[mirror(a)][mirror(b)] and bigram_types[mirror(b)][mirror(a)];
\* and the scissor list is closed under reversal and mirroring.
C11_ScissorSymmetry ==
    (Looked /\ board_type \in OrthoFamily) =>
        /\ (ki < ThumbKey /\ kj < ThumbKey /\ bigram_ij = BIGRAM_SCISSOR) =>
            /\ BigramAt(kj, ki) = BIGRAM_SCISSOR
            /\ BigramAt(mirror_key(ki), mirror_key(kj)) = BIGRAM_SCISSOR
            /\ BigramAt(mirror_key(kj), mirror_key(ki)) = BIGRAM_SCISSOR
        /\ ScissorListClosed[board_type]

\* on a Hex board a pair of right-hand keys, which the list holds only as a
\* mirrored and reversed pair, was classified as a scissor
C11_Witness ==
    /\ Looked /\ board_type = "Hex"
    /\ ki < ThumbKey /\ kj < ThumbKey
    /\ bigram_ij = BIGRAM_SCISSOR
    /\ HandOf(ki) = "R"
    /\ <<mirror_key(kj), mirror_key(ki)>> \in scissors_lr(board_type)

-----------------------------------------------------------------------------
(* Claims about mirrored layouts *)

\* C12: for a model for which is_symmetrical() is true, whatever its row-key,
\* homing and forced-key constraints, the constraints penalty of a layout equals
\* that of the layout with each row reversed; the layout of the final
\* evaluation, which layout() may have mirrored, has the penalty of the
\* layout that annealing found.
C12_MirrorInvariance ==
    (cpc = "final" /\ is_symmetrical(c_params)) =>
        /\ eval_constraints(c_params, ReverseRows(c_layout)) = c_score
        /\ c_rescore = c_score

DotInLeftHalf(lay) ==
    \E k \in KeyIdx : k % 10 < 5 /\ (lay[k][1] = Dot \/ lay[k][2] = Dot)

\* C13: layout() returns the stored layout with each row reversed if and only
\* if the model is symmetrical and '.' (primary or secondary) is in columns
\* 0-4, and the stored layout otherwise; for a symmetrical model the returned
\* layout has no '.' in the left half, and layout() of the returned layout
\* is the returned layout.
C13_LayoutNormalisation ==
    cpc = "final" =>
        /\ c_returned = IF is_symmetrical(c_params) /\ DotInLeftHalf(c_layout)
                        THEN ReverseRows(c_layout) ELSE c_layout
        /\ (c_returned # c_layout) <=> (is_symmetrical(c_params) /\ DotInLeftHalf(c_layout))
        /\ is_symmetrical(c_params) => ~DotInLeftHalf(c_returned)
        /\ Scores_layout(c_params, c_returned) = c_returned

\* a symmetrical model with row-key constraints returned the mirrored layout
\* for a stored layout whose '.' is the secondary symbol of a key of column 1
C13_Witness ==
    /\ cpc = "final"
    /\ is_symmetrical(c_params)
    /\ c_params.constraints.top_keys # None
    /\ c_layout[1][2] = Dot
    /\ c_returned = ReverseRows(c_layout)
    /\ c_returned[8][2] = Dot

-----------------------------------------------------------------------------
(* SpecNeighbor: KuehlmakModel::neighbor (eval.rs:873-903) applied to the   *)
(* layout the annealing is at, for every value the RNG can return           *)

\* the order in which new() enumerates the keys: row by row, the columns
\* 0..4 each followed by its mirror image
KeyOrder ==
    [n \in 1 .. NumKeys |->
        LET row == (n - 1) \div 10
            col == ((n - 1) % 10) \div 2
        IN  IF (n - 1) % 2 = 0 THEN row * 10 + col ELSE row * 10 + 9 - col]

\* finger_keys[f] of the model of a board
finger_keys(board, f) ==
    SelectSeq(KeyOrder, LAMBDA k : key_props(k, board, "Any").finger = f)

\* (faulty variant) the key is copied instead of exchanged
layout_swap_copy(lay, a, b) == [lay EXCEPT ![a] = lay[b]]

\* layout.swap(a, b)
layout_swap(lay, a, b) == [lay EXCEPT ![a] = lay[b], ![b] = lay[a]]

\* (faulty variant) b is not moved past a
key_pair_unshifted(r) == << r \div 29, r % 29 >>

\* let (a, b) = (r / 29, r % 29); let b = (a + b + 1) % 30
key_pair(r) ==
    LET a == r \div 29
        b == (a + (r % 29) + 1) % 30
    IN  <<a, b>>

\* neighbor, first branch: r = rng.gen_range(0..(30 * 29))
neighbor_keys(lay, r) == layout_swap(lay, key_pair(r)[1], key_pair(r)[2])

\* the loop over r0.zip(r1): the keys of the two fingers are exchanged
RECURSIVE SwapFingers(_, _, _, _, _, _, _)
SwapFingers(lay, keys0, keys1, a, b, n, len) ==
    IF n >= len THEN lay
    ELSE SwapFingers(layout_swap(lay, keys0[a + n + 1], keys1[b + n + 1]),
                     keys0, keys1, a, b, n + 1, len)

\* the two fingers that r = rng.gen_range(0..(8 * 7)) stands for
FingerPair(r) ==
    LET f0 == r \div 7
        f1 == (f0 + (r % 7) + 1) % 8
    IN  << IF f0 < Th THEN f0 ELSE f0 + 1, IF f1 < Th THEN f1 ELSE f1 + 1 >>

\* the range of the offset o = rng.gen_range(..); no offset is drawn when
\* the two fingers have the same number of keys
OffsetRange(board, r) ==
    LET l0 == Len(finger_keys(board, FingerPair(r)[1]))
        l1 == Len(finger_keys(board, FingerPair(r)[2]))
    IN  IF l0 = l1 THEN {0} ELSE 0 .. (Abs(l1 - l0))

\* (r0, r1): where the two windows start in the key lists of the two
\* fingers, and their length
FingerWindows(board, r, o) ==
    LET l0 == Len(finger_keys(board, FingerPair(r)[1]))
        l1 == Len(finger_keys(board, FingerPair(r)[2]))
    IN  IF l0 = l1 THEN [a |-> 0, b |-> 0, len |-> l0]
        ELSE IF l0 < l1 THEN [a |-> 0, b |-> o, len |-> l0]
        ELSE [a |-> o, b |-> 0, len |-> l1]

\* neighbor, second branch
neighbor_fingers(lay, board, r, o) ==
    LET w == FingerWindows(board, r, o)
    IN  SwapFingers(lay, finger_keys(board, FingerPair(r)[1]),
                    finger_keys(board, FingerPair(r)[2]), w.a, w.b, 0, w.len)

MaxNeighborSteps == 1

InitNeighbor ==
    /\ n_board \in Boards
    /\ n_layout = QwertyLayout
    /\ n_steps = 0
    /\ n_draw = << >>
    /\ IdleLayout /\ IdleDb /\ IdleClassify /\ IdleConstraints /\ IdleDispatch /\ IdleEval

\* op < 8.0: two random keys are exchanged
NeighborKeys ==
    /\ n_steps < MaxNeighborSteps
    /\ \E r \in 0 .. (30 * 29 - 1) :
           /\ n_layout' = neighbor_keys(n_layout, r)
           /\ n_draw' = [op |-> "keys", r |-> r, o |-> 0]
    /\ n_steps' = n_steps + 1
    /\ UNCHANGED n_board
    /\ UNCHANGED <<layoutVars, dbVars, classifyVars, constrVars, dispatchVars, evalVars>>

\* op >= 8.0: the keys of two random fingers are exchanged
NeighborFingers ==
    /\ n_steps < MaxNeighborSteps
    /\ \E r \in 0 .. (8 * 7 - 1) : \E o \in OffsetRange(n_board, r) :
           /\ n_layout' = neighbor_fingers(n_layout, n_board, r, o)
           /\ n_draw' = [op |-> "fingers", r |-> r, o |-> o]
    /\ n_steps' = n_steps + 1
    /\ UNCHANGED n_board
    /\ UNCHANGED <<layoutVars, dbVars, classifyVars, constrVars, dispatchVars, evalVars>>

NextNeighbor == NeighborKeys \/ NeighborFingers

SpecNeighbor == InitNeighbor /\ [][NextNeighbor]_vars

\* the keys of a layout
KeysOf(lay) == { lay[k] : k \in KeyIdx }

InitialKeys == KeysOf(QwertyLayout)

Moved == { k \in KeyIdx : n_layout[k] # QwertyLayout[k] }

C18_ForcedKeysResolution ==
    (cpc # "config" /\ c_params.constraints.forced_keys # None) =>
        LET forced_keys == c_params.constraints.forced_keys[1]
        IN  IF c_params.initial_layout = None
            THEN cpc = "panic"
            ELSE /\ cpc # "panic"
                 /\ Len(ForcedVec) = Len(forced_keys)
                 /\ \A n \in 1 .. Len(ForcedVec) :
                        /\ ForcedVec[n][1] = forced_keys[n]
                        /\ c_params.initial_layout[1][ForcedVec[n][2]][1] = forced_keys[n]

-----------------------------------------------------------------------------
(* SpecDispatch: the main thread of anneal_command (main.rs:196-252), the   *)
(* pool it submits the annealing tasks to, and the channel on which the     *)
(* tasks send their messages.                                               *)
(*                                                                          *)
(* pool.execute adds 1 to queued_count and queues the job; a pool thread    *)
(* takes the oldest job, subtracts 1 from queued_count and runs the job.    *)
(* A message is <<task, kind, number>>.                                     *)

MaxDispatchTasks == 2   \* -n
MaxPoolThreads   == 2   \* --jobs
MaxProgress      == 2   \* progress messages of one annealing run

DTasks == 1 .. d_n

\* tasks a pool thread is busy with
Busy == { t \in DTasks : w_pc[t] \in {"taken", "anneal", "db", "written"} }

\* tasks whose closure, and with it the Sender it owns, is alive
LiveSenders == { t \in DTasks : w_pc[t] \notin {"new", "done"} }

InitDispatch ==
    /\ d_n \in 1 .. MaxDispatchTasks
    /\ d_max \in 1 .. MaxPoolThreads
    /\ d_progress \in BOOLEAN
    /\ d_pc = "submit"
    /\ d_submitted = 0
    /\ d_jobs = << >>
    /\ d_queued_count = 0
    /\ d_tx = TRUE
    /\ d_chan = << >>
    /\ d_stdout = << >>
    /\ w_pc = [t \in 1 .. d_n |-> "new"]
    /\ w_prog = [t \in 1 .. d_n |-> 0]
    /\ IdleLayout /\ IdleDb /\ IdleClassify /\ IdleConstraints /\ IdleNeighbor /\ IdleEval

OtherThanDispatch == <<layoutVars, dbVars, classifyVars, constrVars, neighborVars,
                       evalVars>>

\* for _ in 0..n { .. pool.execute(move || {..}); ..
Execute ==
    /\ d_pc = "submit"
    /\ d_submitted < d_n
    /\ d_submitted' = d_submitted + 1
    /\ d_queued_count' = d_queued_count + 1
    /\ d_jobs' = Append(d_jobs, d_submitted + 1)
    /\ w_pc' = [w_pc EXCEPT ![d_submitted + 1] = "queued"]
    /\ d_pc' = "check"
    /\ UNCHANGED <<d_n, d_max, d_progress, d_tx, d_chan, d_stdout, w_prog>>
    /\ UNCHANGED OtherThanDispatch

\* (faulty variant) the loop waits only while the queue is longer than max_count
CheckQueue_greater ==
    /\ d_pc = "check"
    /\ d_pc' = IF d_queued_count > d_max THEN "recv" ELSE "submit"
    /\ UNCHANGED <<d_n, d_max, d_progress, d_submitted, d_jobs, d_queued_count,
                   d_tx, d_chan, d_stdout, w_pc, w_prog>>
    /\ UNCHANGED OtherThanDispatch

\* while pool.queued_count() >= pool.max_count()
CheckQueue ==
    /\ d_pc = "check"
    /\ d_pc' = IF d_queued_count >= d_max THEN "recv" ELSE "submit"
    /\ UNCHANGED <<d_n, d_max, d_progress, d_submitted, d_jobs, d_queued_count,
                   d_tx, d_chan, d_stdout, w_pc, w_prog>>
    /\ UNCHANGED OtherThanDispatch

\* (faulty variant) the newest message is received first
Recv_newest ==
    /\ d_pc = "recv"
    /\ d_chan # << >>
    /\ d_stdout' = Append(d_stdout, d_chan[Len(d_chan)])
    /\ d_chan' = SubSeq(d_chan, 1, Len(d_chan) - 1)
    /\ d_pc' = "check"
    /\ UNCHANGED <<d_n, d_max, d_progress, d_submitted, d_jobs, d_queued_count,
                   d_tx, w_pc, w_prog>>
    /\ UNCHANGED OtherThanDispatch

\* stdout.write(&rx.recv().unwrap()).unwrap(): blocks until a message is there
Recv ==
    /\ d_pc = "recv"
    /\ d_chan # << >>
    /\ d_stdout' = Append(d_stdout, Head(d_chan))
    /\ d_chan' = Tail(d_chan)
    /\ d_pc' = "check"
    /\ UNCHANGED <<d_n, d_max, d_progress, d_submitted, d_jobs, d_queued_count,
                   d_tx, w_pc, w_prog>>
    /\ UNCHANGED OtherThanDispatch

\* drop(tx), after the loop over the tasks
DropTx ==
    /\ d_pc = "submit"
    /\ d_submitted = d_n
    /\ d_tx' = FALSE
    /\ d_pc' = "drain"
    /\ UNCHANGED <<d_n, d_max, d_progress, d_submitted, d_jobs, d_queued_count,
                   d_chan, d_stdout, w_pc, w_prog>>
    /\ UNCHANGED OtherThanDispatch

\* while let Ok(msg) = rx.recv() { stdout.write(&msg).unwrap(); }
DrainRecv ==
    /\ d_pc = "drain"
    /\ d_chan # << >>
    /\ d_stdout' = Append(d_stdout, Head(d_chan))
    /\ d_chan' = Tail(d_chan)
    /\ UNCHANGED <<d_n, d_max, d_progress, d_pc, d_submitted, d_jobs, d_queued_count,
                   d_tx, w_pc, w_prog>>
    /\ UNCHANGED OtherThanDispatch

\* (faulty variant) the loop ends as soon as no message is waiting
DrainEnd_try_recv ==
    /\ d_pc = "drain"
    /\ d_chan = << >>
    /\ d_pc' = "returned"
    /\ UNCHANGED <<d_n, d_max, d_progress, d_submitted, d_jobs, d_queued_count,
                   d_tx, d_chan, d_stdout, w_pc, w_prog>>
    /\ UNCHANGED OtherThanDispatch

\* rx.recv() is Err: no message is left and every Sender is dropped
DrainEnd ==
    /\ d_pc = "drain"
    /\ d_chan = << >>
    /\ ~d_tx /\ LiveSenders = {}
    /\ d_pc' = "returned"
    /\ UNCHANGED <<d_n, d_max, d_progress, d_submitted, d_jobs, d_queued_count,
                   d_tx, d_chan, d_stdout, w_pc, w_prog>>
    /\ UNCHANGED OtherThanDispatch

\* an idle pool thread takes the oldest job
TakeJob(t) ==
    /\ t \in DTasks
    /\ d_jobs # << >> /\ Head(d_jobs) = t
    /\ Cardinality(Busy) < d_max
    /\ d_jobs' = Tail(d_jobs)
    /\ w_pc' = [w_pc EXCEPT ![t] = "taken"]
    /\ UNCHANGED <<d_n, d_max, d_progress, d_pc, d_submitted, d_queued_count,
                   d_tx, d_chan, d_stdout, w_prog>>
    /\ UNCHANGED OtherThanDispatch

\* the thread subtracts 1 from queued_count and calls the closure
StartJob(t) ==
    /\ t \in DTasks
    /\ w_pc[t] = "taken"
    /\ d_queued_count' = d_queued_count - 1
    /\ w_pc' = [w_pc EXCEPT ![t] = "anneal"]
    /\ UNCHANGED <<d_n, d_max, d_progress, d_pc, d_submitted, d_jobs,
                   d_tx, d_chan, d_stdout, w_prog>>
    /\ UNCHANGED OtherThanDispatch

\* while let Some(s) = anneal.next() { if progress { .. tx.send(w).unwrap(); } .. }
SendProgress(t) ==
    /\ t \in DTasks
    /\ w_pc[t] = "anneal"
    /\ d_progress
    /\ w_prog[t] < MaxProgress
    /\ w_prog' = [w_prog EXCEPT ![t] = @ + 1]
    /\ d_chan' = Append(d_chan, <<t, "progress", w_prog[t] + 1>>)
    /\ UNCHANGED <<d_n, d_max, d_progress, d_pc, d_submitted, d_jobs, d_queued_count,
                   d_tx, d_stdout, w_pc>>
    /\ UNCHANGED OtherThanDispatch

\* (faulty variant) the task ends without sending its result
SendFinal_silent(t) ==
    /\ t \in DTasks
    /\ w_pc[t] = "anneal"
    /\ w_pc' = [w_pc EXCEPT ![t] = "db"]
    /\ UNCHANGED <<d_n, d_max, d_progress, d_pc, d_submitted, d_jobs, d_queued_count,
                   d_tx, d_chan, d_stdout, w_prog>>
    /\ UNCHANGED OtherThanDispatch

\* the annealing has ended: the final evaluation, and tx.send(w).unwrap()
SendFinal(t) ==
    /\ t \in DTasks
    /\ w_pc[t] = "anneal"
    /\ d_chan' = Append(d_chan, <<t, "final", 0>>)
    /\ w_pc' = [w_pc EXCEPT ![t] = "db"]
    /\ UNCHANGED <<d_n, d_max, d_progress, d_pc, d_submitted, d_jobs, d_queued_count,
                   d_tx, d_stdout, w_prog>>
    /\ UNCHANGED OtherThanDispatch

\* scores.write_to_db(&dir, show_scores).unwrap()
WriteToDb(t) ==
    /\ t \in DTasks
    /\ w_pc[t] = "db"
    /\ w_pc' = [w_pc EXCEPT ![t] = "written"]
    /\ UNCHANGED <<d_n, d_max, d_progress, d_pc, d_submitted, d_jobs, d_queued_count,
                   d_tx, d_chan, d_stdout, w_prog>>
    /\ UNCHANGED OtherThanDispatch

\* the closure ends: what it owns, its Sender too, is dropped
EndClosure(t) ==
    /\ t \in DTasks
    /\ w_pc[t] = "written"
    /\ w_pc' = [w_pc EXCEPT ![t] = "done"]
    /\ UNCHANGED <<d_n, d_max, d_progress, d_pc, d_submitted, d_jobs, d_queued_count,
                   d_tx, d_chan, d_stdout, w_prog>>
    /\ UNCHANGED OtherThanDispatch

Dispatcher == Execute \/ CheckQueue \/ Recv \/ DropTx \/ DrainRecv \/ DrainEnd

Worker(t) ==
    TakeJob(t) \/ StartJob(t) \/ SendProgress(t) \/ SendFinal(t) \/ WriteToDb(t)
    \/ EndClosure(t)

NextDispatch ==
    \/ Execute \/ CheckQueue \/ Recv \/ DropTx \/ DrainRecv \/ DrainEnd
    \/ \E t \in 1 .. MaxDispatchTasks :
        \/ TakeJob(t) \/ StartJob(t) \/ SendProgress(t) \/ SendFinal(t)
        \/ WriteToDb(t) \/ EndClosure(t)

SpecDispatch == InitDispatch /\ [][NextDispatch]_vars

\* every annealing run ends (MaxProgress bounds its steps), the main thread
\* runs when it can, and the pool runs some task when there is one to run
SpecDispatchLive ==
    /\ InitDispatch /\ [][NextDispatch]_vars
    /\ WF_vars(Dispatcher)
    /\ WF_vars(\E t \in 1 .. MaxDispatchTasks : Worker(t))

\* the messages of task t in a sequence of messages, in the order of the sequence
RECURSIVE OfTask(_, _)
OfTask(msgs, t) ==
    IF msgs = << >> THEN << >>
    ELSE IF Head(msgs)[1] = t THEN <<Head(msgs)>> \o OfTask(Tail(msgs), t)
    ELSE OfTask(Tail(msgs), t)

\* what task t has sent so far, in the order it sent it
Produced(t) ==
    [k \in 1 .. w_prog[t] |-> <<t, "progress", k>>]
    \o (IF w_pc[t] \in {"db", "written", "done"} THEN <<(<<t, "final", 0>>)>> ELSE << >>)

IsPrefix(p, q) == Len(p) <= Len(q) /\ SubSeq(q, 1, Len(p)) = p

\* C15: the messages of one task are written to stdout in the order the task
\* sent them, its final result after all of its progress messages; nothing is
\* said about the order between tasks.
C15_PerWorkerOrdering ==
    \A t \in DTasks :
        /\ IsPrefix(OfTask(d_stdout, t), Produced(t))
        /\ (\E i \in DOMAIN d_stdout : d_stdout[i] = <<t, "final", 0>>)
            => OfTask(d_stdout, t) = Produced(t)

\* two progress messages and the result of task 1 are written, with a message
\* of task 2 between them
C15_Witness ==
    /\ OfTask(d_stdout, 1) = <<(<<1, "progress", 1>>), <<1, "progress", 2>>, <<1, "final", 0>>>>
    /\ \E i, j, k \in DOMAIN d_stdout :
        /\ i < j /\ j < k
        /\ d_stdout[i][1] = 1 /\ d_stdout[j][1] = 2 /\ d_stdout[k][1] = 1

\* C16: the main thread drops its Sender only when all n tasks are submitted;
\* a task calls write_to_db after its last send; and when anneal_command has
\* returned, every closure has ended, its write_to_db call included, and
\* every message that was sent is on stdout.
C16_JoinByDraining ==
    /\ ~d_tx => d_submitted = d_n
    /\ \A t \in DTasks :
        w_pc[t] \in {"written", "done"} => OfTask(d_stdout \o d_chan, t) = Produced(t)
    /\ d_pc = "returned" =>
        /\ d_chan = << >>
        /\ \A t \in DTasks : w_pc[t] = "done" /\ OfTask(d_stdout, t) = Produced(t)

\* anneal_command has returned after several tasks that reported progress
C16_Witness ==
    /\ d_pc = "returned"
    /\ d_n >= 2 /\ d_progress
    /\ \A t \in DTasks : w_prog[t] >= 1

\* submitted tasks that no pool thread has started
NotStarted == { t \in DTasks : w_pc[t] \in {"queued", "taken"} }

\* C19: never more than max_count submitted tasks are waiting to be started,
\* and the main thread submits a task only when fewer than max_count are.
C19_BackpressureBound ==
    /\ d_queued_count = Cardinality(NotStarted)
    /\ Cardinality(NotStarted) <= d_max
    /\ (d_pc = "submit" /\ d_submitted < d_n) => d_queued_count < d_max

\* the main thread has received in the backpressure loop and is about to
\* submit the next task
C19_Witness ==
    /\ d_pc = "submit" /\ d_submitted < d_n
    /\ d_tx /\ d_stdout # << >>
    /\ d_queued_count < d_max

\* C20: a receive in the backpressure loop is answered, every task is
\* executed, and the drain loop ends and anneal_command returns.
C20_DispatcherLiveness ==
    /\ (d_pc = "recv") ~> (d_pc = "check")
    /\ <>(\A t \in DTasks : w_pc[t] = "done")
    /\ <>(d_pc = "returned")

\* the main thread blocks in the backpressure loop: no message is waiting
C20_Witness ==
    /\ d_pc = "recv" /\ d_chan = << >>
    /\ d_queued_count >= d_max

-----------------------------------------------------------------------------
(* SpecEval: eval_layout builds token_keymap, heatmap and strokes, and      *)
(* calc_ngrams counts and rescales the bigrams and the trigrams.            *)
(*                                                                          *)
(* The corpus statistics ts are those of a text: the count of every symbol, *)
(* of every two and of every three symbols in a row. The u64 and u128       *)
(* counts are far from their limits and are modelled as naturals; the f64   *)
(* scores computed from them cannot panic and are left out.                 *)

MaxCorpusLen == 3

\* 'e', 'i', the space, and a symbol that is on no key
CorpusChars == {101, 105, SPACE, 233}

\* twelve 'e' and an 'i': a corpus long enough for the loops to end early
LongCorpus == [n \in 1 .. 13 |-> IF n < 13 THEN 101 ELSE 105]

Corpora == UNION { [1 .. n -> CorpusChars] : n \in 1 .. MaxCorpusLen } \cup {LongCorpus}

\* u8::MAX: the symbol is on no key
NoKey == 255

\* ts.get_symbol([c]): the count of symbol c (None is count 0)
SymbolCount(text, c) == Cardinality({ i \in 1 .. Len(text) : text[i] = c })

\* the n-grams of the text, n = 2 or 3
Ngrams(text, n) == { SubSeq(text, i, i + n - 1) : i \in 1 .. Len(text) - (n - 1) }

NgramCount(text, g) ==
    Cardinality({ i \in 1 .. Len(text) - (Len(g) - 1) : SubSeq(text, i, i + Len(g) - 1) = g })

\* ts.total_bigrams(), ts.total_trigrams()
total_ngrams(text, n) == IF Len(text) >= n THEN Len(text) - (n - 1) ELSE 0

\* ts.iter_bigrams(), ts.iter_trigrams(): (ngram, count), the count descending
RECURSIVE IterDescending(_, _)
IterDescending(text, grams) ==
    IF grams = {} THEN << >>
    ELSE LET g == CHOOSE x \in grams :
                    \A y \in grams : NgramCount(text, y) <= NgramCount(text, x)
         IN  <<(<<g, NgramCount(text, g)>>)>> \o IterDescending(text, grams \ {g})

iter_ngrams(text, n) == IterDescending(text, Ngrams(text, n))

\* the key eval_layout enters in token_keymap for a symbol of the corpus
KeyOfSymbol(layout, c) ==
    IF c = SPACE THEN ThumbKey
    ELSE IF \E k \in KeyIdx : c \in {layout[k][1], layout[k][2]}
    THEN CHOOSE k \in KeyIdx : c \in {layout[k][1], layout[k][2]}
    ELSE NoKey

EvalHand(k) == key_props(k, e_model.board_type, e_model.space_thumb).hand

\* the percentile of a loop that took the precision p of eval_layout as it is
Percentile_p(total, tenths) == (total * tenths) \div 10

\* (ts.total_bigrams() as f64 * precision) as u64, precision = 0.9 + p * 0.1
Percentile(total, tenths) == (total * (90 + tenths)) \div 100

EvalModels == { [board_type |-> b, space_thumb |-> t] : b \in {"Ortho", "Angle"}, t \in Hands }

\* QWERTY, QWERTY with 'e' and 'i' exchanged, QWERTY with 'e' and '.' exchanged
EvalLayouts ==
    { QwertyLayout,
      [QwertyLayout EXCEPT ![2] = QwertyLayout[7], ![7] = QwertyLayout[2]],
      [QwertyLayout EXCEPT ![2] = QwertyLayout[28], ![28] = QwertyLayout[2]] }

InitEval ==
    /\ e_pc = "keymap"
    /\ e_model \in EvalModels
    /\ e_layout \in EvalLayouts
    /\ e_text \in Corpora
    /\ e_precision \in {0, 5, 10}
    /\ e_keymap = << >> /\ e_heatmap = << >> /\ e_strokes = 0
    /\ e_hand_total = << >> /\ e_same_hand = << >> /\ e_total = 0
    /\ e_bigram_counts = << >> /\ e_trigram_counts = << >>
    /\ e_loop = << >> /\ e_travel_scale = << >> /\ e_report = << >>
    /\ IdleLayout /\ IdleDb /\ IdleClassify /\ IdleConstraints /\ IdleNeighbor
    /\ IdleDispatch

OtherThanEval ==
    <<layoutVars, dbVars, classifyVars, constrVars, neighborVars, dispatchVars>>

\* eval_layout: token_keymap, heatmap, strokes
BuildKeymap ==
    /\ e_pc = "keymap"
    /\ e_keymap' = [c \in CorpusChars |->
                      IF SymbolCount(e_text, c) > 0 THEN KeyOfSymbol(e_layout, c) ELSE NoKey]
    /\ e_heatmap' = [k \in AllKeys |->
                       Cardinality({ i \in 1 .. Len(e_text) :
                                       KeyOfSymbol(e_layout, e_text[i]) = k })]
    /\ e_strokes' = Cardinality({ i \in 1 .. Len(e_text) :
                                    KeyOfSymbol(e_layout, e_text[i]) # NoKey })
    /\ e_pc' = "bigrams"
    /\ UNCHANGED <<e_report, e_model, e_layout, e_text, e_precision, e_hand_total, e_same_hand,
                   e_total, e_bigram_counts, e_trigram_counts, e_loop, e_travel_scale>>
    /\ UNCHANGED OtherThanEval

EvalBigramType(keys) ==
    BigramType(e_model.board_type, e_model.space_thumb, keys[1], keys[2])

EvalTrigramType(keys) ==
    TrigramType(e_model.board_type, e_model.space_thumb, keys[1], keys[2], keys[3])

\* the body of a bigram loop that skips every bigram with a symbol on the
\* thumb key
BigramStep_skip_thumb(prev, gram, m, pct) ==
    LET count == gram[2]
        k0 == e_keymap[gram[1][1]]
        k1 == e_keymap[gram[1][2]]
        skipped == [prev EXCEPT !.total = @ + count, !.visited = m]
    IN  IF prev.total > pct THEN prev
        ELSE IF k0 >= ThumbKey \/ k1 >= ThumbKey THEN skipped
        ELSE [skipped EXCEPT
                !.counts[EvalBigramType(<<k0, k1>>)][EvalHand(k1)] = @ + count,
                !.corrected = IF EvalBigramType(<<k0, k1>>) \in {BIGRAM_SFB, BIGRAM_SAMEKEY}
                              THEN @ + count ELSE @,
                !.same_hand[EvalHand(k1)] = IF EvalBigramType(<<k0, k1>>) # BIGRAM_ALTERNATE
                                            THEN @ + count ELSE @]

\* the body of a bigram loop that goes on to the next bigram before it adds
\* the count to total
BigramStep_late_total(prev, gram, m, pct) ==
    LET count == gram[2]
        k0 == e_keymap[gram[1][1]]
        k1 == e_keymap[gram[1][2]]
    IN  IF prev.total > pct THEN prev
        ELSE IF k0 = NoKey \/ k1 = NoKey THEN [prev EXCEPT !.visited = m]
        ELSE IF EvalHand(k1) = "Any" THEN [prev EXCEPT !.visited = m]
        ELSE [prev EXCEPT !.total = @ + count, !.visited = m,
                          !.counts[EvalBigramType(<<k0, k1>>)][EvalHand(k1)] = @ + count]

\* one pass of the body of the bigram loop, for the m-th bigram: the loop has
\* ended when total > percentile; a bigram with a symbol on no key, or one
\* that lands on a key of hand Any, is skipped; the others are counted by
\* type and hand
BigramStep(prev, gram, m, pct) ==
    LET count == gram[2]
        k0 == e_keymap[gram[1][1]]
        k1 == e_keymap[gram[1][2]]
        skipped == [prev EXCEPT !.total = @ + count, !.visited = m]
    IN  IF prev.total > pct THEN prev                               \* break
        ELSE IF k0 = NoKey \/ k1 = NoKey THEN skipped               \* continue
        ELSE LET hand == EvalHand(k1)
                 ty == EvalBigramType(<<k0, k1>>)
             IN  IF hand = "Any" THEN skipped                       \* continue
                 ELSE [skipped EXCEPT
                         !.counts[ty][hand] = @ + count,
                         !.corrected = IF ty \in {BIGRAM_SFB, BIGRAM_SAMEKEY}
                                       THEN @ + count ELSE @,
                         !.same_hand[hand] = IF ty # BIGRAM_ALTERNATE
                                             THEN @ + count ELSE @]

\* for &(bigram, count, token) in ts.iter_bigrams()
BigramCounting ==
    LET grams == iter_ngrams(e_text, 2)
        pct == Percentile(total_ngrams(e_text, 2), e_precision)
        f[m \in 0 .. Len(grams)] ==
            IF m = 0 THEN [total |-> 0, same_hand |-> [h \in {"L", "R"} |-> 0],
                           counts |-> [ty \in 0 .. BIGRAM_SFB |-> [h \in {"L", "R"} |-> 0]],
                           visited |-> 0, corrected |-> 0]
            ELSE BigramStep(f[m - 1], grams[m], m, pct)
    IN  f[Len(grams)]

\* one pass of the body of the trigram loop
TrigramStep(prev, gram, m, pct) ==
    LET count == gram[2]
        k0 == e_keymap[gram[1][1]]
        k1 == e_keymap[gram[1][2]]
        k2 == e_keymap[gram[1][3]]
        skipped == [prev EXCEPT !.total = @ + count, !.visited = m]
    IN  IF prev.total > pct THEN prev                               \* break
        ELSE IF k0 = NoKey \/ k1 = NoKey \/ k2 = NoKey THEN skipped \* continue
        ELSE LET hand == EvalHand(k2)
                 ty == EvalTrigramType(<<k0, k1, k2>>)
             IN  IF hand = "Any" THEN skipped                       \* continue
                 ELSE [skipped EXCEPT
                         !.counts[ty][hand] = @ + count,
                         !.corrected = IF ty >= TRIGRAM_D_SAMEKEY /\ ty <= TRIGRAM_SHD_SFB
                                       THEN @ + count ELSE @]

\* for &(trigram, count, token) in ts.iter_trigrams()
TrigramCounting ==
    LET grams == iter_ngrams(e_text, 3)
        pct == Percentile(total_ngrams(e_text, 3), e_precision)
        f[m \in 0 .. Len(grams)] ==
            IF m = 0 THEN [total |-> 0,
                           counts |-> [ty \in 0 .. TRIGRAM_CONTORT |-> [h \in {"L", "R"} |-> 0]],
                           visited |-> 0, corrected |-> 0]
            ELSE TrigramStep(f[m - 1], grams[m], m, pct)
    IN  f[Len(grams)]

\* calc_ngrams: hand_total, and the loop over ts.iter_bigrams()
BigramLoop ==
    /\ e_pc = "bigrams"
    /\ e_hand_total' = [h \in Hands |->
                          Cardinality({ i \in 1 .. Len(e_text) :
                              /\ e_keymap[e_text[i]] # NoKey
                              /\ EvalHand(e_keymap[e_text[i]]) = h })]
    /\ e_loop' = BigramCounting
    /\ e_total' = e_loop'.total
    /\ e_same_hand' = e_loop'.same_hand
    /\ e_bigram_counts' = e_loop'.counts
    /\ e_pc' = "rescale_bigrams"
    /\ UNCHANGED <<e_report, e_model, e_layout, e_text, e_precision, e_keymap, e_heatmap,
                   e_strokes, e_trigram_counts, e_travel_scale>>
    /\ UNCHANGED OtherThanEval

\* *travel += (*travel - orig) * (1.0 - precision), precision = 0.9 + p * 0.1:
\* the factor 1.0 - precision of what is added to the finger travel
BlendScale(tenths) == Ratio(10 - tenths, 100)

\* *count = ((*count as u128 * ts.total_bigrams() as u128) / total as u128) as u64,
\* then the blend of finger_travel
RescaleBigrams ==
    /\ e_pc = "rescale_bigrams"
    /\ IF e_total = 0
       THEN /\ e_pc' = "panic"                    \* attempt to divide by zero
            /\ UNCHANGED <<e_bigram_counts, e_travel_scale>>
       ELSE /\ e_pc' = "hand_runs"
            /\ e_travel_scale' = BlendScale(e_precision)
            /\ e_bigram_counts' =
                 [ty \in DOMAIN e_bigram_counts |-> [h \in {"L", "R"} |->
                     (e_bigram_counts[ty][h] * total_ngrams(e_text, 2)) \div e_total]]
    /\ UNCHANGED <<e_report, e_model, e_layout, e_text, e_precision, e_keymap, e_heatmap,
                   e_strokes, e_hand_total, e_same_hand, e_total, e_trigram_counts,
                   e_loop>>
    /\ UNCHANGED OtherThanEval

\* hand_total[h] - same_hand[h] in u64: when it would be negative, a build
\* with overflow checks panics and a build without them wraps around
HandRuns ==
    /\ e_pc = "hand_runs"
    /\ IF \E h \in {"L", "R"} : e_same_hand[h] > e_hand_total[h]
       THEN e_pc' \in {"panic", "trigrams"}
       ELSE e_pc' = "trigrams"
    /\ UNCHANGED <<e_report, e_model, e_layout, e_text, e_precision, e_keymap, e_heatmap,
                   e_strokes, e_hand_total, e_same_hand, e_total, e_bigram_counts,
                   e_trigram_counts, e_loop, e_travel_scale>>
    /\ UNCHANGED OtherThanEval

\* the loop over ts.iter_trigrams()
TrigramLoop ==
    /\ e_pc = "trigrams"
    /\ e_loop' = TrigramCounting
    /\ e_total' = e_loop'.total
    /\ e_trigram_counts' = e_loop'.counts
    /\ e_pc' = "rescale_trigrams"
    /\ UNCHANGED <<e_report, e_model, e_layout, e_text, e_precision, e_keymap, e_heatmap,
                   e_strokes, e_hand_total, e_same_hand, e_bigram_counts, e_travel_scale>>
    /\ UNCHANGED OtherThanEval

\* *count = ((*count as u128 * ts.total_trigrams() as u128) / total as u128) as u64
RescaleTrigrams ==
    /\ e_pc = "rescale_trigrams"
    /\ IF e_total = 0
       THEN /\ e_pc' = "panic"                    \* attempt to divide by zero
            /\ UNCHANGED <<e_trigram_counts, e_travel_scale>>
       ELSE /\ e_pc' = "done"
            /\ e_travel_scale' = BlendScale(e_precision)
            /\ e_trigram_counts' =
                 [ty \in DOMAIN e_trigram_counts |-> [h \in {"L", "R"} |->
                     (e_trigram_counts[ty][h] * total_ngrams(e_text, 3)) \div e_total]]
    /\ UNCHANGED <<e_report, e_model, e_layout, e_text, e_precision, e_keymap, e_heatmap,
                   e_strokes, e_hand_total, e_same_hand, e_total, e_bigram_counts,
                   e_loop>>
    /\ UNCHANGED OtherThanEval

\* the model of the scores, as is_symmetrical and layout() look at it
EvalConfig ==
    [board_type |-> e_model.board_type, space_thumb |-> e_model.space_thumb,
     constraints |-> DefaultConstraints]

\* Scores::write: the key rows are those of self.layout(), the heat rows
\* those of self.heatmap (show_scores false; every heat is multiplied by the
\* same norm, which is left out)
WriteReport ==
    /\ e_pc = "done"
    /\ e_pc' = "written"
    /\ e_report' = [i \in KeyIdx |->
                       [key |-> Scores_layout(EvalConfig, e_layout)[i],
                        heat |-> e_heatmap[i]]]
    /\ UNCHANGED <<e_model, e_layout, e_text, e_precision, e_keymap, e_heatmap,
                   e_strokes, e_hand_total, e_same_hand, e_total, e_bigram_counts,
                   e_trigram_counts, e_loop, e_travel_scale>>
    /\ UNCHANGED OtherThanEval

NextEval ==
    BuildKeymap \/ BigramLoop \/ RescaleBigrams \/ HandRuns \/ TrigramLoop
    \/ RescaleTrigrams \/ WriteReport

SpecEval == InitEval /\ [][NextEval]_vars

\* C17: eval_layout does not panic when a symbol of the layout occurs in the
\* corpus (strokes > 0), not even when the corpus has no bigrams or no
\* trigrams: the divisors of the two rescales are not 0 and
\* hand_total[h] - same_hand[h] is not negative.
C17_NoPanic ==
    (e_pc \notin {"idle", "keymap"} /\ e_strokes > 0) =>
        /\ e_pc # "panic"
        /\ e_pc = "rescale_bigrams" => e_total # 0
        /\ e_pc = "rescale_trigrams" => e_total # 0
        /\ e_pc = "hand_runs" => \A h \in {"L", "R"} : e_same_hand[h] <= e_hand_total[h]

\* the count of the first m n-grams of ts.iter_bigrams() / ts.iter_trigrams():
\* the value of total when the loop reaches the n-gram after them
CumCount(grams, m) ==
    LET f[i \in 0 .. m] == IF i = 0 THEN 0 ELSE f[i - 1] + grams[i][2]
    IN  f[m]

\* the n-grams of the loop that has just ended, 2 after the bigram loop and 3
\* after the trigram loop
LoopN == IF e_pc = "rescale_bigrams" THEN 2 ELSE 3

AfterLoop == e_pc \in {"rescale_bigrams", "rescale_trigrams"}

\* C21 as the specification states it: no n-gram is visited (and classified)
\* once the count of the n-grams visited before it exceeds p * total, p being
\* the precision given to eval_layout.
C21_PrecisionTruncation_AsClaimed ==
    AfterLoop =>
        LET grams == iter_ngrams(e_text, LoopN)
        IN  \A m \in 1 .. e_loop.visited :
                10 * CumCount(grams, m - 1) <= e_precision * total_ngrams(e_text, LoopN)

\* C21: calc_ngrams is given 0.9 + 0.1 * p for the precision p of eval_layout:
\* the m-th n-gram, the counts descending, is visited exactly when the count
\* of the n-grams before it does not exceed (0.9 + 0.1 * p) * total, for the
\* bigrams and for the trigrams, and total is the count of the visited ones.
C21_PrecisionTruncation ==
    AfterLoop =>
        LET grams == iter_ngrams(e_text, LoopN)
        IN  /\ \A m \in 1 .. Len(grams) :
                  (m <= e_loop.visited) <=>
                      (100 * CumCount(grams, m - 1)
                          <= (90 + e_precision) * total_ngrams(e_text, LoopN))
            /\ e_total = CumCount(grams, e_loop.visited)

\* the bigram loop ended before the last bigram, after it classified the first
C21_Witness ==
    /\ e_pc = "rescale_bigrams"
    /\ e_loop.visited >= 1
    /\ e_loop.visited < Len(iter_ngrams(e_text, 2))
    /\ \E ty \in DOMAIN e_loop.counts : \E h \in {"L", "R"} : e_loop.counts[ty][h] > 0


\* the sum of the counts of every type and hand, the types being 0 .. top
SumCounts(counts) ==
    LET top == Cardinality(DOMAIN counts) - 1
        f[ty \in (0 - 1) .. top] ==
            IF ty < 0 THEN 0 ELSE f[ty - 1] + counts[ty]["L"] + counts[ty]["R"]
    IN  f[top]

\* C22: with precision 1.0 the loops visit every bigram and every trigram,
\* the rescale leaves the counts as the loop counted them, and the blend adds
\* nothing to the finger travel; with any precision the bigram counts add up
\* to total_bigrams at most after the rescale.
C22_FullPrecisionExact ==
    /\ (AfterLoop /\ e_precision = 10) =>
           /\ e_loop.visited = Len(iter_ngrams(e_text, LoopN))
           /\ e_total = total_ngrams(e_text, LoopN)
    /\ (e_pc = "hand_runs" /\ e_precision = 10) =>
           e_bigram_counts = e_loop.counts /\ e_travel_scale = F(0)
    /\ (e_pc = "done" /\ e_precision = 10) =>
           e_trigram_counts = e_loop.counts /\ e_travel_scale = F(0)
    /\ e_pc \in {"hand_runs", "trigrams", "rescale_trigrams", "done"} =>
           SumCounts(e_bigram_counts) <= total_ngrams(e_text, 2)

\* precision 1.0, a corpus of two different bigrams of which one is skipped,
\* and the rescale done
C22_Witness ==
    /\ e_pc = "hand_runs" /\ e_precision = 10
    /\ e_loop.visited = 2
    /\ SumCounts(e_bigram_counts) = 1


\* the bigrams of the corpus, as places in the text, with both symbols on
\* one of the keys 0 .. 29
NonThumbPairs ==
    { i \in 1 .. Len(e_text) - 1 :
        e_keymap[e_text[i]] < ThumbKey /\ e_keymap[e_text[i + 1]] < ThumbKey }

\* the bigrams of the corpus with both symbols on a key, the thumb key
\* included, and the second on a key of the left or the right hand
ScoredPairs ==
    { i \in 1 .. Len(e_text) - 1 :
        /\ e_keymap[e_text[i]] # NoKey /\ e_keymap[e_text[i + 1]] # NoKey
        /\ EvalHand(e_keymap[e_text[i + 1]]) # "Any" }

\* C23 as the specification states it: a bigram with a symbol on key 30 or
\* on no key adds nothing to bigram_counts, to same_hand or to the finger
\* travel, so these hold no more than the bigrams on the keys 0 .. 29.
C23_ThumbUnmappedSkipped_AsClaimed ==
    e_pc = "rescale_bigrams" =>
        /\ SumCounts(e_loop.counts) <= Cardinality(NonThumbPairs)
        /\ e_loop.same_hand["L"] + e_loop.same_hand["R"] <= Cardinality(NonThumbPairs)
        /\ e_loop.corrected <= Cardinality(NonThumbPairs)

\* C23: a bigram with a symbol on no key, or with its second symbol on a key
\* of hand Any (key 30 when space_thumb is Any), adds nothing to
\* bigram_counts, same_hand and the finger travel; every other visited
\* bigram, those with a symbol on key 30 included, is counted once.
C23_ThumbUnmappedSkipped ==
    e_pc = "rescale_bigrams" =>
        /\ SumCounts(e_loop.counts) <= Cardinality(ScoredPairs)
        /\ e_loop.same_hand["L"] + e_loop.same_hand["R"] <= Cardinality(ScoredPairs)
        /\ e_loop.corrected <= Cardinality(ScoredPairs)
        /\ e_loop.visited = Len(iter_ngrams(e_text, 2)) =>
               SumCounts(e_loop.counts) = Cardinality(ScoredPairs)

\* a corpus of a bigram that ends on the thumb key, which is counted, and one
\* with a symbol on no key, which is skipped
C23_Witness ==
    /\ e_pc = "rescale_bigrams"
    /\ e_model.space_thumb = "L"
    /\ e_text = <<101, SPACE, 233>>
    /\ e_loop.visited = 2
    /\ SumCounts(e_loop.counts) = 1
    /\ e_loop.same_hand["L"] = 1


-----------------------------------------------------------------------------
(* Claims on the tables of SpecClassify                                     *)

SameHandTriple ==
    /\ Looked
    /\ HandOf(ki) # "Any"
    /\ HandOf(ki) = HandOf(kj) /\ HandOf(kj) = HandOf(kk)

Rolls == {BIGRAM_DROLL, BIGRAM_UROLL}

\* the fingers go one way from ki to kj and the other way from kj to kk
Reverses ==
    \/ FingerOf(kj) > FingerOf(ki) /\ FingerOf(kk) < FingerOf(kj)
    \/ FingerOf(kj) < FingerOf(ki) /\ FingerOf(kk) > FingerOf(kj)

\* C24: for every board and every same-hand triple of keys, trigram_types is
\* RRoll only if bigram_types[i][j] and bigram_types[j][k] are both rolls
\* (DRoll or URoll) and the finger order does not reverse; a triple with a
\* SameKey, LSB2 or LSB3 bigram is never RRoll.
C24_RRollMeansTwoRolls ==
    (SameHandTriple /\ trigram_ijk = TRIGRAM_RROLL) =>
        /\ bigram_ij \in Rolls /\ bigram_jk \in Rolls
        /\ ~Reverses
        /\ {bigram_ij, bigram_jk} \cap {BIGRAM_SAMEKEY, BIGRAM_LSB2, BIGRAM_LSB3} = {}


-----------------------------------------------------------------------------
(* Claims on the homing constraint of SpecConstraints                       *)

Evaluated == cpc \in {"done", "final"}

\* the homing positions of the index finger (1) and of the middle finger (2)
HomingPlaces(finger) ==
    CASE finger = 1 -> {13, 16}
      [] finger = 2 -> {12, 17}
      [] OTHER      -> {}

\* how many homing positions of the finger hold a homing key; for finger 0
\* the better of the two fingers
HomingBest(finger) ==
    LET keys == c_params.constraints.homing_keys[1]
        n(f) == Cardinality({ k \in HomingPlaces(f) : Contains(keys, c_layout[k][1]) })
    IN  IF finger = 0 THEN Max(n(1), n(2)) ELSE n(finger)

\* the places, among the given ones, that hold a homing-only key
HomingOnlyPlaces(places) ==
    LET only == c_params.constraints.homing_only_keys
    IN  IF only = None THEN {}
        ELSE { k \in places : Contains(only[1], c_layout[k][1]) }

\* the place on the home row of the first of the homing-only keys, in the
\* order of the string, that is on the home row
FirstHomingOnlyPlace ==
    LET only == c_params.constraints.homing_only_keys[1]
        onrow == { n \in 1 .. Len(only) : \E k \in 10 .. 19 : c_layout[k][1] = only[n] }
        first == CHOOSE n \in onrow : \A o \in onrow : n <= o
    IN  CHOOSE k \in 10 .. 19 : c_layout[k][1] = only[first]

\* C25 as the specification states it: with homing keys the value is
\* (2 - best + wrong) / 3 for the finger of the homing-only keys, wrong being
\* 1 when a homing-only key is anywhere in the layout, any row, but on a
\* homing position of that finger; the value is in [0, 1], and 0 without
\* homing keys.
C25_HomingConstraint_AsClaimed ==
    Evaluated =>
        IF c_params.constraints.homing_keys = None THEN c_homing = F(0)
        ELSE LET placed == HomingOnlyPlaces(0 .. 29)
                 fingers == { f \in {1, 2} : placed \cap HomingPlaces(f) # {} }
             IN  \E f \in (IF fingers = {} THEN {0} ELSE fingers) :
                     c_homing = Ratio(2 - HomingBest(f)
                                        + (IF placed \subseteq HomingPlaces(f) THEN 0 ELSE 1), 3)

\* C25: with homing keys the value is (2 - best + wrong) / 3; the finger is
\* that of the first homing-only key found on the home row when that key is
\* on a homing position, else the better finger counts; wrong is 1 when a
\* homing-only key of the home row is not on a homing position of that
\* finger, and a homing-only key of another row changes nothing. The value
\* is in [0, 1], and 0 without homing keys.
C25_HomingConstraint ==
    Evaluated =>
        /\ c_homing.d = 1 \/ c_homing.d = 3
        /\ 0 <= c_homing.n /\ c_homing.n <= c_homing.d
        /\ IF c_params.constraints.homing_keys = None THEN c_homing = F(0)
           ELSE LET placed == HomingOnlyPlaces(10 .. 19)
                    finger == IF placed = {} THEN 0
                              ELSE IF FirstHomingOnlyPlace \in HomingPlaces(1) THEN 1
                              ELSE IF FirstHomingOnlyPlace \in HomingPlaces(2) THEN 2
                              ELSE 0
                IN  c_homing = Ratio(2 - HomingBest(finger)
                                       + (IF placed \subseteq HomingPlaces(finger) THEN 0 ELSE 1), 3)

\* homing keys on both index positions, one homing-only key on an index
\* position and the other on the top row: the value is 0
C25_Witness ==
    /\ cpc = "done"
    /\ c_params.constraints.homing_keys # None
    /\ c_params.constraints.homing_only_keys # None
    /\ HomingOnlyPlaces(0 .. 9) # {}
    /\ HomingOnlyPlaces(10 .. 19) = {13}
    /\ HomingBest(1) = 2
    /\ c_homing = F(0)


\* C26: for every board type and every key, d_abs squared is
\* (1.5 * x)^2 + y^2, x = col - home_col + row_offsets[row][hand], y = row - 1
\* (0 for the thumb key); the key 14 of Ortho has d_abs = 1.5.
C26_HomeDistanceWeighting ==
    Looked =>
        /\ 4 * d_abs_i = 9 * key_x(ki, board_type, space_thumb)
                            * key_x(ki, board_type, space_thumb)
                          + 64 * key_y(ki) * key_y(ki)
        /\ (board_type = "Ortho" /\ ki = 14) => 4 * d_abs_i = 9 * 16


-----------------------------------------------------------------------------
(* Claims on the moves of SpecNeighbor                                      *)

\* the ordered pairs of positions that the draws r of the first branch give
KeyPairs == { key_pair(r) : r \in 0 .. (30 * 29 - 1) }

\* the positions that the last call of neighbor exchanged, as a sequence of
\* pairs
SwappedPairs ==
    IF n_draw.op = "keys" THEN << key_pair(n_draw.r) >>
    ELSE LET w == FingerWindows(n_board, n_draw.r, n_draw.o)
             keys0 == finger_keys(n_board, FingerPair(n_draw.r)[1])
             keys1 == finger_keys(n_board, FingerPair(n_draw.r)[2])
         IN  [n \in 1 .. w.len |-> << keys0[w.a + n], keys1[w.b + n] >>]

MoveSetOk ==
    /\ n_draw # << >> /\ n_draw.op = "keys" =>
          LET p == key_pair(n_draw.r)
          IN  /\ p[1] \in KeyIdx /\ p[2] \in KeyIdx /\ p[1] # p[2]
              /\ Cardinality({ r \in 0 .. (30 * 29 - 1) : key_pair(r) = p }) = 1
              /\ KeyPairs = { <<a, b>> : a, b \in KeyIdx } \ { <<a, a>> : a \in KeyIdx }
    /\ n_draw # << >> /\ n_draw.op = "fingers" =>
          LET f0 == FingerPair(n_draw.r)[1]
              f1 == FingerPair(n_draw.r)[2]
              l0 == Len(finger_keys(n_board, f0))
              l1 == Len(finger_keys(n_board, f1))
              w  == FingerWindows(n_board, n_draw.r, n_draw.o)
          IN  /\ f0 # f1 /\ f0 # Th /\ f1 # Th
              /\ w.a >= 0 /\ w.a + w.len <= l0
              /\ w.b >= 0 /\ w.b + w.len <= l1
              /\ w.len = Min(l0, l1) /\ w.len >= 1
              /\ Len(SwappedPairs) = w.len
              /\ Cardinality({ SwappedPairs[n][x] : n \in 1 .. w.len, x \in {1, 2} })
                    = 2 * w.len

\* C27: in the key-swap branch r is decoded to an ordered pair (a, b) of
\* positions 0 .. 29, a # b, and every ordered pair of different positions
\* comes from exactly one r; in the finger-swap branch the two fingers are
\* different and not Th, both windows are inside the key lists, and
\* min(l0, l1) >= 1 pairs of different positions are exchanged; neighbor(L)
\* is never L.
C27_NeighborMoveSet == [](MoveSetOk) /\ [][n_layout' # n_layout]_vars

\* on an Angle board two keys of the left pinky were exchanged with a window
\* of the three keys of the right pinky that starts at offset 1
C27_Witness ==
    /\ n_draw # << >> /\ n_draw.op = "fingers"
    /\ n_board = "Angle"
    /\ n_draw.o = 1
    /\ Len(SwappedPairs) = 2
    /\ n_layout # QwertyLayout


\* C29: in the block that Scores::write prints, the heat at place i of the
\* grid is the count of the strokes of the glyphs printed at place i, also
\* when the model is symmetrical and the layout has '.' in its left half, so
\* that the keys printed are those of the mirrored layout().
C29_ReportConsistency ==
    e_pc = "written" =>
        \A i \in KeyIdx :
            e_report[i].heat = SymbolCount(e_text, e_report[i].key[1])
                                 + SymbolCount(e_text, e_report[i].key[2])


-----------------------------------------------------------------------------
(* Claims on the file names of SpecLayout                                   *)

\* C30: two valid layouts that differ in the primary glyph of a key get
\* different names from layout_to_filename; a name is 10 + 10 + 10 glyph
\* chars with '_' between the tens, followed by ".kbl".
C30_FilenameInjectivity ==
    lpc = "named" =>
        /\ Len(out_filename) = NumKeys + 2 + Len(KblSuffix)
        /\ out_filename[11] = Underscore /\ out_filename[22] = Underscore
        /\ SubSeq(out_filename, NumKeys + 3, Len(out_filename)) = KblSuffix
        /\ \A other \in InputLayouts :
               (\E k \in KeyIdx : other[k][1] # in_layout[k][1]) =>
                   layout_to_filename(other) # out_filename


-----------------------------------------------------------------------------
(* Claims on the files of SpecLayout                                        *)

\* the number read back is the number of calls
PopularityAgrees == lpc = "read" => out_read.popularity = calls

\* the last line of a text has a char other than '#'
LastLineHasOther(string) ==
    LET lines == Lines(string)
    IN  /\ Len(lines) > 0
        /\ \E i \in 1 .. Len(lines[Len(lines)]) : lines[Len(lines)][i] # Hash

\* a file whose last line has another char is not listed
OtherCharNotListed ==
    (lpc = "textread" /\ LastLineHasOther(in_text)) => ~out_read.listed

\* C28: of a file made by n >= 1 sequential write_to_db calls for a layout L,
\* layout_from_file returns (L, n); a file whose last line has a char other
\* than '#' has popularity 0 and is ignored by layouts_from_paths.
C28_WriterReaderAgreement ==
    /\ lpc = "read" =>
        /\ ~out_read.exit
        /\ out_read.layout = in_layout
        /\ out_read.popularity = calls
    /\ (lpc = "textread" /\ LastLineHasOther(in_text)) =>
        /\ ~out_read.exit
        /\ out_read.popularity = 0
        /\ ~out_read.listed


=============================================================================
